---------------------------- MODULE Spec2Model ----------------------------
(***************************************************************************)
(* A model of the rise_drones fleet-control plane:                         *)
(*   - the vehicle server (src/src/dss/server/dss.py, class Server) with   *)
(*     the parts of the hexacopter object (src/src/dss/server/hexacopter.py)*)
(*     that it drives: dispatcher thread, task thread, flight-mode monitor, *)
(*     clearance listener;                                                 *)
(*   - the resource broker (src/src/app/crm.py, class CRM): dispatcher and *)
(*     task-queue worker;                                                  *)
(*   - the request socket and the task queue of src/src/dss/auxiliaries.   *)
(* SpecDSS runs the vehicle server of a fleet vehicle, SpecHandover the     *)
(* vehicle server with every handover check enabled, SpecCRM the broker.   *)
(***************************************************************************)
EXTENDS Integers, Sequences, FiniteSets, TLC

VARIABLES
  \* ---- vehicle server: constructor arguments (dss.py:23)
  cfg,                   \* [crm, with_gcs, midstick_check, clearance_check]
  \* ---- vehicle server: Server attributes
  in_controls,           \* self._in_controls: "PILOT" | "DSS" | "APPLICATION"
  owner,                 \* self._owner
  connected,             \* self._connected
  t_diff,                \* time.time() - self._t_last_owner_msg, in seconds
  clearance_state,       \* self._clearance_state: "WAITING" | "HIGH" | "CLEARED"
  task,                  \* self._task: [fcn, id]
  task_event,            \* self._task_event.is_set()
  alive,                 \* self._alive
  main_pc,               \* position of the thread running Server._main
  task_pc,               \* position of the thread running Server._main_task
  \* ---- hexacopter object
  hexa_mode,             \* Hexacopter.mode: the flight mode last commanded
  expected_flight_mode,  \* Hexacopter._expected_flight_mode
  abort_task,            \* Hexacopter._abort_task
  rtl_waypoints,         \* len(Hexacopter._rtl_waypoints)
  pending_mission,       \* len(Hexacopter.pending_mission)
  active_mission,        \* len(Hexacopter.active_mission)
  mission_next_wp,       \* Hexacopter.mission_next_wp
  srtl_left,             \* trail waypoints task_dss_srtl has still to visit
  init_point,            \* Hexacopter.init_point_wp.is_init_point
  \* ---- the vehicle as seen through dronekit
  flight_mode,           \* vehicle.mode.name
  armed,                 \* vehicle.armed
  is_armable,            \* vehicle.is_armable
  channel3,              \* vehicle.channels['3'] (throttle)
  channel13,             \* vehicle.channels['13'] = Hexacopter._old_channel_13; 0 is None
  gcs_vital,             \* heartbeat.Client.vital
  \* ---- history variables (written, never read, by the program's actions)
  rtl_started,           \* an rtl task has run since authority became DSS
  log_rtl_completed,     \* 'RTL completed. Waiting for PILOT ...' logged in this DSS period
  lhl,                   \* progress of low, high, low on channel 13 since the last handover
  \* ---- broker (crm.py)
  clients,               \* self._clients: id -> record
  nextIndex,             \* self._nextIndex
  tasks,                 \* TaskQueue._tasks
  worker,                \* the task the TaskQueue worker is executing, or idle
  snapshot,              \* the content of clients.json
  \* ---- auxiliaries (dss/auxiliaries)
  req,                   \* a zmq.Req socket with its callers and its heartbeat thread
  queue,                 \* a TaskQueue with its worker and the threads that add
  hexa                   \* Hexacopter's missions and SRTL trail, with their waypoints

dssVars == << cfg, in_controls, owner, connected, t_diff, clearance_state, task,
              task_event, alive, main_pc, task_pc, hexa_mode, expected_flight_mode,
              abort_task, rtl_waypoints, pending_mission, active_mission,
              mission_next_wp, srtl_left, init_point, flight_mode, armed, is_armable, channel3,
              channel13, gcs_vital, rtl_started, log_rtl_completed, lhl >>

crmVars == << clients, nextIndex, tasks, worker, snapshot >>

auxVars == << req, queue, hexa >>

vars == << dssVars, crmVars, auxVars >>

-----------------------------------------------------------------------------
(* Bounds of the model *)

MaxWp == 2        \* waypoints in an uploaded mission
MaxTrail == 1     \* waypoints kept in the SRTL trail
MaxSilence == 10  \* seconds of owner silence that are told apart
SilenceStep == 5  \* seconds by which the vehicle server's clock advances

(* Program constants *)

T_LINK_LOST == 10     \* dss.py:790 t_link_lost
PWM_MID == 1500       \* dss.py:899 clearance threshold
PWM_STICK_LOW == 1400 \* dss.py:897 mid-stick window
PWM_STICK_HIGH == 1600

Modes == {"GUIDED", "RTL", "LAND", "LOITER"}
\* the modes the safety pilot selects with the RC mode switch
PilotModes == {"GUIDED", "LOITER"}
\* a vehicle of the broker's fleet, run without the pilot's checks
FleetConfig ==
  [crm |-> TRUE, with_gcs |-> FALSE, midstick_check |-> FALSE,
   clearance_check |-> FALSE]
\* a stand-alone vehicle with every handover check enabled
CheckedConfig ==
  [crm |-> FALSE, with_gcs |-> TRUE, midstick_check |-> TRUE,
   clearance_check |-> TRUE]
Configs == {FleetConfig, CheckedConfig}
Authorities == {"PILOT", "DSS", "APPLICATION"}
AppIds == {"da000"}
CallerIds == AppIds \cup {"crm"}
PWM_LOW == 1000
PwmValues == {PWM_LOW, 1900, 2000}
ThrottleValues == {PWM_LOW, PWM_MID}

Verbs == {"heart_beat", "who_controls", "set_owner", "set_init_point",
          "reset_dss_srtl", "upload_mission", "arm_take_off", "gogo", "land",
          "rtl", "dss_srtl", "disconnect", "set_vel_BODY", "set_heading"}

\* dss.py:115-149: the verbs whose _commands entry has a task
TaskVerbs == {"arm_take_off", "gogo", "land", "rtl", "dss_srtl", "disconnect"}

\* The requests the model sends: caller id, verb, the verb's argument (the new
\* owner of set_owner, next_wp of gogo, the mission length of upload_mission)
\* and ok: whether the argument and sensor checks that the model does not
\* represent (satellites, height, heading, hover time, waypoint checks) pass.
Requests ==
  [id : CallerIds, fcn : Verbs \ {"set_owner", "gogo", "upload_mission"},
   arg : {0}, ok : BOOLEAN]
  \cup [id : CallerIds, fcn : {"set_owner"}, arg : CallerIds, ok : {TRUE}]
  \cup [id : CallerIds, fcn : {"gogo"}, arg : 0 .. MaxWp - 1, ok : {TRUE}]
  \cup [id : CallerIds, fcn : {"upload_mission"}, arg : 1 .. MaxWp, ok : BOOLEAN]

\* the requests of the runs of the authority arbitration: the verbs that
\* need no mission and no init point
ArbitrationRequests ==
  {msg \in Requests :
     msg.fcn \in {"heart_beat", "who_controls", "set_owner", "rtl",
                  "disconnect", "set_vel_BODY", "set_heading"}}

\* the requests of the runs of the handover: no task is requested
HandoverRequests ==
  {msg \in Requests : msg.fcn \in {"heart_beat", "who_controls", "set_owner"}}

\* dss.py:329-516: the verbs that move the vehicle
MotionVerbs == {"arm_take_off", "land", "rtl", "dss_srtl", "gogo",
                "set_vel_BODY", "set_heading"}

\* the requests of the runs of the flight tasks: an application prepares a
\* mission of MaxWp waypoints, and any caller sends the verbs that move the
\* vehicle; the arguments pass the handlers' checks
FlightRequests ==
  {msg \in Requests :
     /\ msg.ok
     /\ \/ /\ msg.fcn \in {"heart_beat", "set_init_point", "upload_mission"}
           /\ msg.id \in AppIds
           /\ msg.fcn = "upload_mission" => msg.arg = MaxWp
        \/ msg.fcn \in MotionVerbs}

NoTask == [fcn |-> "", id |-> "", arg |-> 0]
\* dss.py:1022 the task the safety layer sets: it carries no caller id
DssRtlTask == [fcn |-> "rtl", id |-> "", arg |-> 0]

-----------------------------------------------------------------------------
(* Vehicle server: helpers *)

\* dss.py:192-196
lost_link_to_gcs == cfg.with_gcs /\ ~gcs_vital

\* dss.py:209-210
from_owner_Anyone(msg) == TRUE
from_owner(msg) == msg.id = owner

\* dss.py:213-214
nav_ready == is_armable

\* hexacopter.py:341-342
is_flying == armed

\* hexacopter.py:560-561
is_flight_mode(m) == flight_mode = m

\* dss.py:162 and dss.py:972
ClearanceReset == IF cfg.clearance_check THEN "WAITING" ELSE "CLEARED"

\* dss.py:990 and dss.py:897: the throttle is at mid-stick
MidStick == PWM_STICK_LOW < channel3 /\ channel3 < PWM_STICK_HIGH

\* the task thread is inside Hexacopter.task_ardupilot_rtl called by _task_rtl
\* (dss.py:861-862, hexacopter.py:1169-1197)
RtlExecuting == task.fcn = "rtl" /\ task_pc \in {"rtl", "rtl_wait"}

\* the running task was requested by an application (dss.py:1072), not set
\* by the safety layer (dss.py:1022)
ForApp == task.id # ""

InitDSS ==
  /\ cfg \in Configs
  /\ in_controls = "PILOT"
  /\ owner = "da000"
  /\ connected = FALSE
  /\ t_diff = 0
  /\ clearance_state = (IF cfg.clearance_check THEN "WAITING" ELSE "CLEARED")
  /\ task = NoTask
  /\ task_event = FALSE
  /\ alive = TRUE
  /\ main_pc = "top"
  /\ task_pc = "read"
  /\ hexa_mode \in PilotModes
  /\ flight_mode = hexa_mode
  /\ expected_flight_mode = TRUE
  /\ abort_task = FALSE
  /\ rtl_waypoints = 0
  /\ pending_mission = 0
  /\ active_mission = 0
  /\ mission_next_wp = 0
  /\ srtl_left = 0
  /\ init_point = FALSE
  /\ armed = FALSE
  /\ is_armable = FALSE
  /\ channel3 = 0
  /\ channel13 = 0
  /\ gcs_vital = FALSE
  /\ rtl_started = FALSE
  /\ log_rtl_completed = FALSE
  /\ lhl = 0

-----------------------------------------------------------------------------
(* Vehicle server: the dispatcher thread, Server._main, first half of an   *)
(* iteration: the arbitration of authority (dss.py:956-1033).  A branch     *)
(* that ends in 'continue' leaves main_pc at "top"; the others go on to    *)
(* the receive at "recv".                                                  *)

serverRest == << owner, connected, t_diff, alive, task_pc >>
missionVars == << rtl_waypoints, pending_mission, active_mission,
                  mission_next_wp, srtl_left, init_point >>
vehicleVars == << flight_mode, armed, is_armable, channel3, channel13, gcs_vital >>

\* dss.py:959-962
GcsLost ==
  /\ main_pc = "top" /\ alive
  /\ in_controls = "APPLICATION" /\ lost_link_to_gcs
  /\ in_controls' = "DSS"
  /\ rtl_started' = RtlExecuting /\ log_rtl_completed' = FALSE
  /\ UNCHANGED << cfg, clearance_state, task, task_event, main_pc, hexa_mode,
                  expected_flight_mode, abort_task, lhl,
                  serverRest, missionVars, vehicleVars >>

\* dss.py:966-967: the guard of the flight-mode branch
FlightModeDiverged ==
  in_controls \in {"APPLICATION", "DSS"} /\ ~expected_flight_mode

\* a takeover that keeps the commanded mode as the baseline
PilotTakesOver_KeepsBaseline ==
  /\ main_pc = "top" /\ alive
  /\ ~(in_controls = "APPLICATION" /\ lost_link_to_gcs)
  /\ FlightModeDiverged
  /\ expected_flight_mode' = TRUE
  /\ in_controls' = "PILOT"
  /\ clearance_state' = ClearanceReset
  /\ rtl_started' = FALSE /\ log_rtl_completed' = FALSE
  /\ UNCHANGED << cfg, task, task_event, main_pc, abort_task, lhl, hexa_mode,
                  serverRest, missionVars, vehicleVars >>

\* dss.py:966-973 with hexacopter.py:535-539 set_expected_flight_mode
PilotTakesOver ==
  /\ main_pc = "top" /\ alive
  /\ ~(in_controls = "APPLICATION" /\ lost_link_to_gcs)
  /\ FlightModeDiverged
  /\ hexa_mode' = flight_mode
  /\ expected_flight_mode' = TRUE
  /\ in_controls' = "PILOT"
  /\ clearance_state' = ClearanceReset
  /\ rtl_started' = FALSE /\ log_rtl_completed' = FALSE
  /\ UNCHANGED << cfg, task, task_event, main_pc, abort_task, lhl,
                  serverRest, missionVars, vehicleVars >>

\* the conditions of the handover without the one on the application
HandoverAllowed_Unconnected ==
  /\ is_armable
  /\ ~lost_link_to_gcs
  /\ is_flight_mode("GUIDED")
  /\ channel3 # 0
  /\ (cfg.midstick_check => MidStick)
  /\ clearance_state = "CLEARED"

\* dss.py:978-998: the conditions under which the PILOT branch reaches its else
HandoverAllowed ==
  /\ is_armable
  /\ ~lost_link_to_gcs
  /\ is_flight_mode("GUIDED")
  /\ channel3 # 0
  /\ (cfg.midstick_check => MidStick)
  /\ connected
  /\ clearance_state = "CLEARED"

\* dss.py:977, 998-1003 with hexacopter.py:535-539
Handover ==
  /\ main_pc = "top" /\ alive
  /\ in_controls = "PILOT"
  /\ HandoverAllowed
  /\ hexa_mode' = "GUIDED"
  /\ expected_flight_mode' = (flight_mode = "GUIDED")
  /\ in_controls' = "APPLICATION"
  /\ lhl' = 0
  /\ UNCHANGED << cfg, clearance_state, task, task_event, main_pc, abort_task,
                  rtl_started, log_rtl_completed,
                  serverRest, missionVars, vehicleVars >>

\* dss.py:977-997: one of the waiting messages is printed
PilotWaits ==
  /\ main_pc = "top" /\ alive
  /\ in_controls = "PILOT"
  /\ ~HandoverAllowed
  /\ main_pc' = "recv"
  /\ UNCHANGED << cfg, in_controls, clearance_state, task, task_event, hexa_mode,
                  expected_flight_mode, abort_task, rtl_started,
                  log_rtl_completed, lhl, serverRest, missionVars, vehicleVars >>

\* dss.py:1007-1011: the rtl task is running
DssRtlRunning ==
  /\ main_pc = "top" /\ alive
  /\ in_controls = "DSS" /\ expected_flight_mode
  /\ task.fcn = "rtl" /\ task_event
  /\ main_pc' = "recv"
  /\ UNCHANGED rtl_started
  /\ UNCHANGED << cfg, in_controls, clearance_state, task, task_event, hexa_mode,
                  expected_flight_mode, abort_task, log_rtl_completed,
                  lhl, serverRest, missionVars, vehicleVars >>

\* a dispatcher that gives authority back to the application
AfterRtlCompleted_Application == "APPLICATION"

\* dss.py:1012-1014: authority after the tick that finds the rtl task ended
AfterRtlCompleted == "DSS"

\* dss.py:1007-1008, 1012-1014
DssRtlCompleted ==
  /\ main_pc = "top" /\ alive
  /\ in_controls = "DSS" /\ expected_flight_mode
  /\ task.fcn = "rtl" /\ ~task_event
  /\ in_controls' = AfterRtlCompleted
  /\ log_rtl_completed' = TRUE
  /\ UNCHANGED << cfg, clearance_state, task, task_event, main_pc, hexa_mode,
                  expected_flight_mode, abort_task, rtl_started, lhl,
                  serverRest, missionVars, vehicleVars >>

\* dss.py:1015-1019
DssAbortsTask ==
  /\ main_pc = "top" /\ alive
  /\ in_controls = "DSS" /\ expected_flight_mode
  /\ task.fcn # "rtl" /\ task_event
  /\ abort_task' = TRUE
  /\ main_pc' = "recv"
  /\ UNCHANGED << cfg, in_controls, clearance_state, task, task_event, hexa_mode,
                  expected_flight_mode, rtl_started, log_rtl_completed,
                  lhl, serverRest, missionVars, vehicleVars >>

\* dss.py:1020-1023
DssSetsRtl ==
  /\ main_pc = "top" /\ alive
  /\ in_controls = "DSS" /\ expected_flight_mode
  /\ task.fcn # "rtl" /\ ~task_event
  /\ abort_task' = FALSE
  /\ task' = DssRtlTask
  /\ task_event' = TRUE
  /\ main_pc' = "recv"
  /\ UNCHANGED << cfg, in_controls, clearance_state, hexa_mode,
                  expected_flight_mode, rtl_started, log_rtl_completed,
                  lhl, serverRest, missionVars, vehicleVars >>

\* dss.py:1027-1033
AppIdle ==
  /\ main_pc = "top" /\ alive
  /\ in_controls = "APPLICATION" /\ ~lost_link_to_gcs /\ expected_flight_mode
  /\ main_pc' = "recv"
  /\ UNCHANGED << cfg, in_controls, clearance_state, task, task_event, hexa_mode,
                  expected_flight_mode, abort_task, rtl_started,
                  log_rtl_completed, lhl, serverRest, missionVars, vehicleVars >>

\* dss.py:956, 1088: the loop ends when alive is false
MainExits ==
  /\ main_pc = "top" /\ ~alive
  /\ main_pc' = "done"
  /\ UNCHANGED << cfg, in_controls, clearance_state, task, task_event, hexa_mode,
                  expected_flight_mode, abort_task, rtl_started,
                  log_rtl_completed, lhl, serverRest, missionVars, vehicleVars >>

\* dss.py:956-1033
Arbitrate ==
  \/ GcsLost \/ PilotTakesOver \/ Handover \/ PilotWaits \/ DssRtlRunning
  \/ DssRtlCompleted \/ DssAbortsTask \/ DssSetsRtl \/ AppIdle

-----------------------------------------------------------------------------
(* Vehicle server: the dispatcher thread, second half of an iteration: the  *)
(* receive, the link-loss check and the request handler (dss.py:1037-1086). *)

\* dss.py:788-794: the link is found lost when t seconds have passed
LinkLost(t) == connected /\ t >= T_LINK_LOST

\* crm_api.py:53-54 with zmq.py:272-291: the call returns the broker's answer
\* (ack or nack), or raises NoAnswer when no reply arrives in time
AppLostOutcomes == IF cfg.crm THEN {"answer", "NoAnswer"} ELSE {"none"}

\* dss.py:801-805: the authority _is_link_lost leaves
AfterLinkLost == IF in_controls = "APPLICATION" THEN "DSS" ELSE in_controls

\* dss.py:794-806 (and 1043-1047): the link is lost; no reply is sent.
\* NoAnswer is not caught in _is_link_lost nor in _main: the thread ends
\* at line 800, before line 801.
IsLinkLost(outcome) ==
  /\ connected' = FALSE
  /\ IF outcome = "NoAnswer"
       THEN /\ main_pc' = "dead"
            /\ UNCHANGED << in_controls, rtl_started, log_rtl_completed >>
       ELSE /\ main_pc' = "top"
            /\ in_controls' = AfterLinkLost
            /\ IF in_controls = "APPLICATION"
                 THEN rtl_started' = RtlExecuting /\ log_rtl_completed' = FALSE
                 ELSE UNCHANGED << rtl_started, log_rtl_completed >>
  /\ UNCHANGED << cfg, owner, t_diff, clearance_state, task, task_event, alive,
                  task_pc, hexa_mode, expected_flight_mode, abort_task,
                  lhl, missionVars, vehicleVars >>

\* dss.py:1038, 1042-1044: the receive times out
ServeTimeout ==
  /\ main_pc = "recv"
  /\ IF LinkLost(t_diff)
       THEN \E outcome \in AppLostOutcomes : IsLinkLost(outcome)
       ELSE /\ main_pc' = "top"
            /\ UNCHANGED << cfg, in_controls, clearance_state, task, task_event,
                            hexa_mode, expected_flight_mode, abort_task,
                            rtl_started, log_rtl_completed, lhl, serverRest,
                            missionVars, vehicleVars >>

\* The nack reasons of the request handlers, dss.py:231-735
Acked(msg) ==
  CASE msg.fcn = "heart_beat" -> from_owner(msg)
    [] msg.fcn = "who_controls" -> TRUE
    [] msg.fcn = "set_owner" -> msg.id = "crm"
    [] msg.fcn = "set_init_point" ->
         from_owner(msg) /\ nav_ready /\ ~init_point /\ msg.ok
    [] msg.fcn = "reset_dss_srtl" -> from_owner(msg) /\ nav_ready
    [] msg.fcn = "arm_take_off" ->
         /\ from_owner(msg) /\ in_controls = "APPLICATION"
         /\ msg.ok /\ ~is_flying /\ init_point
    [] msg.fcn \in {"land", "rtl", "set_vel_BODY"} ->
         from_owner(msg) /\ in_controls = "APPLICATION" /\ is_flying
    [] msg.fcn \in {"dss_srtl", "set_heading"} ->
         from_owner(msg) /\ in_controls = "APPLICATION" /\ is_flying /\ msg.ok
    [] msg.fcn = "upload_mission" -> from_owner(msg) /\ init_point /\ msg.ok
    [] msg.fcn = "gogo" ->
         /\ from_owner(msg) /\ in_controls = "APPLICATION" /\ is_flying
         /\ msg.arg < pending_mission
    [] msg.fcn = "disconnect" -> from_owner(msg)

\* dss.py:1063-1076: the request function is called unless the verb has a
\* task and a task is running
Called_Always(msg) == TRUE
Called(msg) == ~(msg.fcn \in TaskVerbs /\ task_event)

\* the handlers that send a motion command: dss.py:421-422, 444, 731
Commands(msg) == msg.fcn \in {"set_vel_BODY", "set_heading", "disconnect"}

\* dss.py:1040-1041, 1046-1083: a request is received
ServeRequest(msg) ==
  /\ main_pc = "recv"
  /\ LET t == IF from_owner(msg) THEN 0 ELSE t_diff
         ack == Called(msg) /\ Acked(msg)
     IN IF LinkLost(t)
          THEN \E outcome \in AppLostOutcomes : IsLinkLost(outcome)
          ELSE
            /\ t_diff' = t
            /\ connected' = IF ack /\ msg.fcn = "set_owner" THEN FALSE
                            ELSE connected \/ (from_owner(msg) /\ msg.id # "crm")
            /\ owner' = IF ack /\ msg.fcn = "set_owner" THEN msg.arg ELSE owner
            /\ init_point' = (init_point \/ (ack /\ msg.fcn = "set_init_point"))
            /\ rtl_waypoints' = IF ack /\ msg.fcn = "reset_dss_srtl" THEN 1
                                ELSE rtl_waypoints
            /\ pending_mission' = IF ack /\ msg.fcn = "upload_mission" THEN msg.arg
                                  ELSE pending_mission
            /\ active_mission' = IF ack /\ msg.fcn = "gogo" THEN pending_mission
                                 ELSE active_mission
            /\ \E outcome \in (IF ack /\ msg.fcn = "disconnect"
                                 THEN AppLostOutcomes ELSE {"none"}) :
                 \* dss.py:734: NoAnswer leaves _request_disconnect and _main
                 IF outcome = "NoAnswer"
                   THEN main_pc' = "dead" /\ UNCHANGED << task, task_event >>
                   ELSE /\ main_pc' = "top"
                        /\ IF ack /\ msg.fcn \in TaskVerbs
                             THEN /\ task' = [fcn |-> msg.fcn, id |-> msg.id,
                                              arg |-> msg.arg]
                                  /\ task_event' = TRUE
                             ELSE UNCHANGED << task, task_event >>
            /\ UNCHANGED << cfg, in_controls, clearance_state, alive, task_pc,
                            hexa_mode, expected_flight_mode, abort_task,
                            mission_next_wp, srtl_left, rtl_started,
                            log_rtl_completed, lhl, vehicleVars >>

\* dss.py:1037-1086
Serve == ServeTimeout \/ \E msg \in Requests : ServeRequest(msg)

-----------------------------------------------------------------------------
(* Vehicle server: the task thread, Server._main_task (dss.py:910-926), and *)
(* the task bodies of Hexacopter it runs.  task_pc names the statement the  *)
(* thread is at.                                                           *)

taskFrame == << cfg, in_controls, owner, t_diff, clearance_state, task, main_pc,
                expected_flight_mode, abort_task, pending_mission,
                active_mission, init_point, is_armable, channel3, channel13,
                gcs_vital, log_rtl_completed, lhl >>

\* what a step of the task thread changes: the rest of its variables stay
TaskStep(changed) ==
  /\ UNCHANGED taskFrame
  /\ IF "task_event" \in changed THEN TRUE ELSE UNCHANGED task_event
  /\ IF "connected" \in changed THEN TRUE ELSE UNCHANGED connected
  /\ IF "alive" \in changed THEN TRUE ELSE UNCHANGED alive
  /\ IF "mode" \in changed THEN TRUE ELSE UNCHANGED << hexa_mode, flight_mode >>
  /\ IF "armed" \in changed THEN TRUE ELSE UNCHANGED armed
  /\ IF "rtl_waypoints" \in changed THEN TRUE ELSE UNCHANGED rtl_waypoints
  /\ IF "mission_next_wp" \in changed THEN TRUE ELSE UNCHANGED mission_next_wp
  /\ IF "srtl_left" \in changed THEN TRUE ELSE UNCHANGED srtl_left
  /\ IF "rtl_started" \in changed THEN TRUE ELSE UNCHANGED rtl_started

\* hexacopter.py:549-558: the mode is reached and recorded as commanded, or
\* the wait times out
SetFlightModeAndWait(m, reached) ==
  IF reached THEN flight_mode' = m /\ hexa_mode' = m
             ELSE UNCHANGED << hexa_mode, flight_mode >>

\* dss.py:813-874: the Hexacopter task each verb's task starts with
FirstPc(fcn) ==
  CASE fcn = "arm_take_off" -> "ato"
    [] fcn = "gogo" -> "gogo"
    [] fcn = "land" -> "land"
    [] fcn = "rtl" -> "rtl"
    [] fcn = "dss_srtl" -> "srtl"
    [] fcn = "disconnect" -> "disc"
    [] OTHER -> "clear"

\* dss.py:861-874 and hexacopter.py:1216-1227: where the thread goes when
\* task_land, task_ardupilot_rtl or task_dss_srtl returns
Returned == IF task.fcn = "disconnect" THEN "disc_end" ELSE "set_guided"

\* dss.py:912-918
TaskRead ==
  /\ task_pc = "read"
  /\ IF alive
       THEN /\ task_pc' = FirstPc(task.fcn)
            /\ rtl_started' = (rtl_started \/ (task.fcn = "rtl" /\ in_controls = "DSS"))
       ELSE task_pc' = "done" /\ UNCHANGED rtl_started
  /\ TaskStep({"rtl_started"})

\* dss.py:924-925
TaskClear ==
  /\ task_pc = "clear"
  /\ IF alive
       THEN task_event' = FALSE /\ task_pc' = "wait"
       ELSE UNCHANGED task_event /\ task_pc' = "read"
  /\ TaskStep({"task_event"})

\* dss.py:926
TaskWait ==
  /\ task_pc = "wait"
  /\ task_event
  /\ task_pc' = "read"
  /\ TaskStep({})

\* hexacopter.py:1116-1119: task_arm_take_off starts
TaskArmTakeOff ==
  /\ task_pc = "ato"
  /\ task_pc' = IF abort_task THEN "clear" ELSE "ato_arm"
  /\ TaskStep({})

\* hexacopter.py:1120-1137: the wait for is_armable, then arm_and_wait
TaskArm ==
  /\ task_pc = "ato_arm"
  /\ is_armable
  /\ IF ~is_flight_mode("GUIDED") \/ armed
       THEN task_pc' = "clear" /\ UNCHANGED armed
       ELSE \E done \in BOOLEAN :
              /\ armed' = done
              /\ task_pc' = IF done THEN "ato_takeoff" ELSE "clear"
  /\ TaskStep({"armed"})

\* hexacopter.py:1139-1167: simple_takeoff and the climb
TaskTakeOff ==
  /\ task_pc = "ato_takeoff"
  /\ task_pc' = "clear"
  /\ TaskStep({})

\* hexacopter.py:681-696: task_gogo up to the loop
TaskGogo ==
  /\ task_pc = "gogo"
  /\ IF abort_task
       THEN task_pc' = "clear" /\ UNCHANGED mission_next_wp
       ELSE IF task.arg < active_mission
         THEN mission_next_wp' = task.arg /\ task_pc' = "goto"
         ELSE mission_next_wp' = -1 /\ task_pc' = "clear"
  /\ TaskStep({"mission_next_wp"})

\* hexacopter.py:649-657: goto_waypoint up to its loop
TaskGoto ==
  /\ task_pc = "goto"
  /\ IF is_flight_mode("GUIDED")
       THEN task_pc' = "goto_loop"
       ELSE task_pc' = "clear"
  /\ TaskStep({})

\* hexacopter.py:658-679: one round of the loop of goto_waypoint: the
\* waypoint is reached, or send_goto_lla steers towards it
TaskGotoLoop ==
  /\ task_pc = "goto_loop"
  /\ \/ task_pc' = IF task.fcn = "gogo" THEN "gogo_reached" ELSE "srtl_reached"
     \/ task_pc' = "goto_loop"
  /\ TaskStep({})

\* hexacopter.py:706-724: the waypoint is reached
TaskGogoReached ==
  /\ task_pc = "gogo_reached"
  /\ rtl_waypoints' = IF rtl_waypoints < MaxTrail THEN rtl_waypoints + 1
                      ELSE rtl_waypoints
  /\ IF mission_next_wp + 1 < active_mission
       THEN /\ mission_next_wp' = mission_next_wp + 1
            /\ task_pc' = "goto"
       ELSE /\ mission_next_wp' = -1
            /\ task_pc' = "clear"
  /\ TaskStep({"rtl_waypoints", "mission_next_wp"})

\* hexacopter.py:1072-1088: task_land up to its loop
TaskLand ==
  /\ task_pc = "land"
  /\ IF is_flight_mode("GUIDED")
       THEN /\ \E reached \in BOOLEAN : SetFlightModeAndWait("LAND", reached)
            /\ task_pc' = "land_wait"
       ELSE /\ UNCHANGED << hexa_mode, flight_mode >>
            /\ task_pc' = "clear"
  /\ TaskStep({"mode"})

\* hexacopter.py:1090-1114: the loop of task_land and what follows it
TaskLandWait ==
  /\ task_pc = "land_wait"
  /\ IF armed /\ is_flight_mode("LAND")
       THEN /\ abort_task
            /\ \E reached \in BOOLEAN : SetFlightModeAndWait("GUIDED", reached)
            /\ task_pc' = "clear"
       ELSE /\ UNCHANGED << hexa_mode, flight_mode >>
            /\ task_pc' = IF is_flight_mode("LAND") /\ ~armed
                            THEN Returned ELSE "clear"
  /\ TaskStep({"mode"})

\* hexacopter.py:1064-1070 called at dss.py:864, 869, 874
TaskSetGuided ==
  /\ task_pc = "set_guided"
  /\ \E reached \in BOOLEAN : SetFlightModeAndWait("GUIDED", reached)
  /\ task_pc' = "clear"
  /\ TaskStep({"mode"})

\* hexacopter.py:1169-1184: task_ardupilot_rtl up to its loop
TaskRtl ==
  /\ task_pc = "rtl"
  /\ IF is_flight_mode("GUIDED")
       THEN \E reached \in BOOLEAN : SetFlightModeAndWait("RTL", reached)
       ELSE UNCHANGED << hexa_mode, flight_mode >>
  /\ task_pc' = "rtl_wait"
  /\ TaskStep({"mode"})

\* hexacopter.py:1186-1197: the loop of task_ardupilot_rtl ends
TaskRtlWait ==
  /\ task_pc = "rtl_wait"
  /\ ~(armed /\ is_flight_mode("RTL"))
  /\ task_pc' = Returned
  /\ TaskStep({})

\* hexacopter.py:1199-1207: task_dss_srtl up to its loop
TaskSrtl ==
  /\ task_pc = "srtl"
  /\ IF abort_task
       THEN task_pc' = "clear" /\ UNCHANGED srtl_left
       ELSE IF armed /\ is_flight_mode("GUIDED")
         THEN /\ srtl_left' = rtl_waypoints
              /\ task_pc' = IF rtl_waypoints > 0 THEN "goto" ELSE "land"
         ELSE task_pc' = Returned /\ UNCHANGED srtl_left
  /\ TaskStep({"srtl_left"})

\* hexacopter.py:1208-1214: a trail waypoint is reached
TaskSrtlReached ==
  /\ task_pc = "srtl_reached"
  /\ IF abort_task
       THEN task_pc' = "clear" /\ UNCHANGED srtl_left
       ELSE /\ srtl_left' = srtl_left - 1
            /\ task_pc' = IF srtl_left > 1 THEN "goto" ELSE "land"
  /\ TaskStep({"srtl_left"})

\* hexacopter.py:1216-1227: task_disconnect
TaskDisconnect ==
  /\ task_pc = "disc"
  /\ task_pc' = IF abort_task THEN "clear"
                ELSE IF is_flying /\ is_flight_mode("GUIDED")
                  THEN (IF rtl_waypoints > 0 THEN "srtl" ELSE "rtl")
                  ELSE "disc_end"
  /\ TaskStep({})

\* dss.py:820-823
TaskDisconnected ==
  /\ task_pc = "disc_end"
  /\ connected' = FALSE
  /\ alive' = (alive /\ cfg.crm)
  /\ task_pc' = "clear"
  /\ TaskStep({"connected", "alive"})

\* dss.py:910-926
MainTask ==
  \/ TaskRead \/ TaskClear \/ TaskWait \/ TaskArmTakeOff \/ TaskArm \/ TaskTakeOff
  \/ TaskGogo \/ TaskGoto \/ TaskGotoLoop \/ TaskGogoReached \/ TaskLand
  \/ TaskLandWait \/ TaskSetGuided \/ TaskRtl \/ TaskRtlWait \/ TaskSrtl
  \/ TaskSrtlReached \/ TaskDisconnected \/ TaskDisconnect

-----------------------------------------------------------------------------
(* The flight-mode monitor, the RC listener and the vehicle's environment *)

envFrame == << cfg, in_controls, owner, connected, task, task_event, alive,
               main_pc, task_pc, hexa_mode, abort_task, rtl_started,
               log_rtl_completed, missionVars >>

\* hexacopter.py:541-547: one round of _main_flight_mode
MainFlightMode ==
  /\ expected_flight_mode' = (flight_mode = hexa_mode)
  /\ UNCHANGED << envFrame, t_diff, clearance_state, lhl, vehicleVars >>

\* dss.py:896-903: _clearance_listener called with the new channel 13 value
ClearanceAfter(v3, value) ==
  IF ~cfg.midstick_check \/ (PWM_STICK_LOW < v3 /\ v3 < PWM_STICK_HIGH)
    THEN CASE clearance_state = "WAITING" /\ value > PWM_MID -> "HIGH"
           [] clearance_state = "HIGH" /\ value < PWM_MID -> "CLEARED"
           [] OTHER -> clearance_state
    ELSE clearance_state

\* the low, high, low progress after channel 13 is observed at value
LhlAfter(value) ==
  CASE lhl = 0 /\ value < PWM_MID -> 1
    [] lhl = 1 /\ value > PWM_MID -> 2
    [] lhl = 2 /\ value < PWM_MID -> 3
    [] OTHER -> lhl

\* hexacopter.py:197-221: an RC_CHANNELS message arrives; the channel13
\* listeners (dss.py:160-161) are notified when the value has changed and
\* was known before
RcChannels(v3, v13) ==
  /\ cfg.midstick_check \/ v3 = PWM_MID
  /\ cfg.clearance_check \/ v13 = PWM_LOW
  /\ channel3' = v3
  /\ channel13' = v13
  /\ clearance_state' =
       IF cfg.clearance_check /\ channel13 # v13 /\ channel13 # 0
         THEN ClearanceAfter(v3, v13) ELSE clearance_state
  /\ lhl' = IF cfg.clearance_check THEN LhlAfter(v13) ELSE lhl
  /\ UNCHANGED << envFrame, t_diff, expected_flight_mode, flight_mode, armed,
                  is_armable, gcs_vital >>

\* the safety pilot (or the autopilot) changes the flight mode
PilotSetsMode(m) ==
  /\ m # flight_mode
  /\ flight_mode' = m
  /\ UNCHANGED << envFrame, t_diff, clearance_state, lhl, expected_flight_mode,
                  armed, is_armable, channel3, channel13, gcs_vital >>

\* the safety pilot arms the vehicle and takes off
Armed ==
  /\ ~armed /\ flight_mode = "LOITER"
  /\ armed' = TRUE
  /\ UNCHANGED << envFrame, t_diff, clearance_state, lhl, expected_flight_mode,
                  flight_mode, is_armable, channel3, channel13, gcs_vital >>

\* the vehicle lands and disarms
Disarmed ==
  /\ armed /\ flight_mode # "GUIDED"
  /\ armed' = FALSE
  /\ UNCHANGED << envFrame, t_diff, clearance_state, lhl, expected_flight_mode,
                  flight_mode, is_armable, channel3, channel13, gcs_vital >>

\* vehicle.is_armable becomes true: the autopilot has initialised
ArmableChanges ==
  /\ ~is_armable
  /\ is_armable' = TRUE
  /\ UNCHANGED << envFrame, t_diff, clearance_state, lhl, expected_flight_mode,
                  flight_mode, armed, channel3, channel13, gcs_vital >>

\* heartbeat.py:102-158: the ground station's heartbeats arrive or stop
GcsChanges ==
  /\ cfg.with_gcs
  /\ gcs_vital' = ~gcs_vital
  /\ UNCHANGED << envFrame, t_diff, clearance_state, lhl, expected_flight_mode,
                  flight_mode, armed, is_armable, channel3, channel13 >>

\* a second passes without a message of the owner; dss.py:791 reads the
\* time only in _is_link_lost and only while connected
Tick ==
  /\ connected /\ main_pc = "recv"
  /\ t_diff < MaxSilence
  /\ t_diff' = IF t_diff + SilenceStep > MaxSilence THEN MaxSilence
                ELSE t_diff + SilenceStep
  /\ UNCHANGED << envFrame, clearance_state, lhl, expected_flight_mode,
                  vehicleVars >>

Environment ==
  \/ \E v3 \in ThrottleValues, v13 \in PwmValues : RcChannels(v3, v13)
  \/ \E m \in PilotModes : PilotSetsMode(m)
  \/ Armed \/ Disarmed \/ ArmableChanges \/ GcsChanges \/ Tick

NextDSS ==
  \/ PilotTakesOver /\ UNCHANGED << crmVars, auxVars >>
  \/ Handover /\ UNCHANGED << crmVars, auxVars >>
  \/ PilotWaits /\ UNCHANGED << crmVars, auxVars >>
  \/ DssRtlRunning /\ UNCHANGED << crmVars, auxVars >>
  \/ DssRtlCompleted /\ UNCHANGED << crmVars, auxVars >>
  \/ DssAbortsTask /\ UNCHANGED << crmVars, auxVars >>
  \/ DssSetsRtl /\ UNCHANGED << crmVars, auxVars >>
  \/ AppIdle /\ UNCHANGED << crmVars, auxVars >>
  \/ ServeTimeout /\ UNCHANGED << crmVars, auxVars >>
  \/ \E msg \in ArbitrationRequests : ServeRequest(msg) /\ UNCHANGED << crmVars, auxVars >>
  \/ TaskRead /\ UNCHANGED << crmVars, auxVars >>
  \/ TaskClear /\ UNCHANGED << crmVars, auxVars >>
  \/ TaskWait /\ UNCHANGED << crmVars, auxVars >>
  \/ TaskSetGuided /\ UNCHANGED << crmVars, auxVars >>
  \/ TaskRtl /\ UNCHANGED << crmVars, auxVars >>
  \/ TaskRtlWait /\ UNCHANGED << crmVars, auxVars >>
  \/ TaskDisconnect /\ UNCHANGED << crmVars, auxVars >>
  \/ TaskDisconnected /\ UNCHANGED << crmVars, auxVars >>
  \/ MainFlightMode /\ UNCHANGED << crmVars, auxVars >>
  \/ \E v3 \in ThrottleValues, v13 \in PwmValues :
       RcChannels(v3, v13) /\ UNCHANGED << crmVars, auxVars >>
  \/ \E m \in PilotModes : PilotSetsMode(m) /\ UNCHANGED << crmVars, auxVars >>
  \/ Armed /\ UNCHANGED << crmVars, auxVars >>
  \/ Disarmed /\ UNCHANGED << crmVars, auxVars >>
  \/ ArmableChanges /\ UNCHANGED << crmVars, auxVars >>
  \/ Tick /\ UNCHANGED << crmVars, auxVars >>

NextHandover ==
  \/ GcsLost /\ UNCHANGED << crmVars, auxVars >>
  \/ PilotTakesOver /\ UNCHANGED << crmVars, auxVars >>
  \/ Handover /\ UNCHANGED << crmVars, auxVars >>
  \/ PilotWaits /\ UNCHANGED << crmVars, auxVars >>
  \/ DssRtlRunning /\ UNCHANGED << crmVars, auxVars >>
  \/ DssRtlCompleted /\ UNCHANGED << crmVars, auxVars >>
  \/ DssSetsRtl /\ UNCHANGED << crmVars, auxVars >>
  \/ AppIdle /\ UNCHANGED << crmVars, auxVars >>
  \/ ServeTimeout /\ UNCHANGED << crmVars, auxVars >>
  \/ \E msg \in HandoverRequests : ServeRequest(msg) /\ UNCHANGED << crmVars, auxVars >>
  \/ TaskRead /\ UNCHANGED << crmVars, auxVars >>
  \/ TaskClear /\ UNCHANGED << crmVars, auxVars >>
  \/ TaskWait /\ UNCHANGED << crmVars, auxVars >>
  \/ TaskSetGuided /\ UNCHANGED << crmVars, auxVars >>
  \/ TaskRtl /\ UNCHANGED << crmVars, auxVars >>
  \/ TaskRtlWait /\ UNCHANGED << crmVars, auxVars >>
  \/ MainFlightMode /\ UNCHANGED << crmVars, auxVars >>
  \/ \E v3 \in ThrottleValues, v13 \in PwmValues :
       RcChannels(v3, v13) /\ UNCHANGED << crmVars, auxVars >>
  \/ \E m \in PilotModes : PilotSetsMode(m) /\ UNCHANGED << crmVars, auxVars >>
  \/ Armed /\ UNCHANGED << crmVars, auxVars >>
  \/ Disarmed /\ UNCHANGED << crmVars, auxVars >>
  \/ ArmableChanges /\ UNCHANGED << crmVars, auxVars >>
  \/ GcsChanges /\ UNCHANGED << crmVars, auxVars >>
  \/ Tick /\ UNCHANGED << crmVars, auxVars >>

NextFlight ==
  \/ PilotTakesOver /\ UNCHANGED << crmVars, auxVars >>
  \/ Handover /\ UNCHANGED << crmVars, auxVars >>
  \/ PilotWaits /\ UNCHANGED << crmVars, auxVars >>
  \/ DssRtlRunning /\ UNCHANGED << crmVars, auxVars >>
  \/ DssRtlCompleted /\ UNCHANGED << crmVars, auxVars >>
  \/ DssAbortsTask /\ UNCHANGED << crmVars, auxVars >>
  \/ DssSetsRtl /\ UNCHANGED << crmVars, auxVars >>
  \/ AppIdle /\ UNCHANGED << crmVars, auxVars >>
  \/ ServeTimeout /\ UNCHANGED << crmVars, auxVars >>
  \/ \E msg \in FlightRequests : ServeRequest(msg) /\ UNCHANGED << crmVars, auxVars >>
  \/ TaskRead /\ UNCHANGED << crmVars, auxVars >>
  \/ TaskClear /\ UNCHANGED << crmVars, auxVars >>
  \/ TaskWait /\ UNCHANGED << crmVars, auxVars >>
  \/ TaskArmTakeOff /\ UNCHANGED << crmVars, auxVars >>
  \/ TaskArm /\ UNCHANGED << crmVars, auxVars >>
  \/ TaskTakeOff /\ UNCHANGED << crmVars, auxVars >>
  \/ TaskGogo /\ UNCHANGED << crmVars, auxVars >>
  \/ TaskGoto /\ UNCHANGED << crmVars, auxVars >>
  \/ TaskGotoLoop /\ UNCHANGED << crmVars, auxVars >>
  \/ TaskGogoReached /\ UNCHANGED << crmVars, auxVars >>
  \/ TaskLand /\ UNCHANGED << crmVars, auxVars >>
  \/ TaskLandWait /\ UNCHANGED << crmVars, auxVars >>
  \/ TaskSetGuided /\ UNCHANGED << crmVars, auxVars >>
  \/ TaskRtl /\ UNCHANGED << crmVars, auxVars >>
  \/ TaskRtlWait /\ UNCHANGED << crmVars, auxVars >>
  \/ TaskSrtl /\ UNCHANGED << crmVars, auxVars >>
  \/ TaskSrtlReached /\ UNCHANGED << crmVars, auxVars >>
  \/ MainFlightMode /\ UNCHANGED << crmVars, auxVars >>
  \/ \E v3 \in ThrottleValues, v13 \in PwmValues :
       RcChannels(v3, v13) /\ UNCHANGED << crmVars, auxVars >>
  \/ \E m \in PilotModes : PilotSetsMode(m) /\ UNCHANGED << crmVars, auxVars >>
  \/ Armed /\ UNCHANGED << crmVars, auxVars >>
  \/ Disarmed /\ UNCHANGED << crmVars, auxVars >>
  \/ ArmableChanges /\ UNCHANGED << crmVars, auxVars >>
  \/ Tick /\ UNCHANGED << crmVars, auxVars >>

-----------------------------------------------------------------------------
(* The broker, class CRM (crm.py).  A client id is its type prefix and the  *)
(* index it was allocated with ('dss001', 'da002': crm.py:561): Id(type, i). *)
(* Crm stands for the owner 'crm'.  A record keeps type, owner, ip (0 is    *)
(* ''), capabilities (has_caps is false when the record has no such key)    *)
(* and age = _now - timestamp.                                              *)

MaxIndex == 4     \* ids the broker allocates
MaxTasks == 2     \* tasks waiting in the broker's task queue
MaxAge == 30      \* seconds of client silence that are told apart
TimeStep == 10    \* seconds by which the broker's clock advances

T_STALE == 15         \* crm.py:187
T_UNAVAILABLE == 20   \* crm.py:292, 304, 554

Crm == 0
\* crm.py:561, 119, 436: '{type}{index:03d}'; the ids of vehicles are
\* 1 .. MaxIndex, those of the other clients MaxIndex + 1 .. 2 * MaxIndex
Id(type, index) == IF type = "dss" THEN index ELSE MaxIndex + index
Index(id) == IF id > MaxIndex THEN id - MaxIndex ELSE id
Ids == 1 .. 2 * MaxIndex
Ips == {1, 2}
Caps == {"RGB", "rgb", "SIM"}
VehicleCaps == {{"RGB", "SIM"}, {"rgb"}}
RequestedCaps == {{"RGB"}, {"SIM"}}

RegisterInputs ==
  {[type |-> "dss", ip |-> 1, caps |-> {"RGB", "SIM"}],
   [type |-> "dss", ip |-> 2, caps |-> {"rgb"}],
   [type |-> "da", ip |-> 1, caps |-> {}]}

\* the task the worker executes: its function and arguments, and the
\* index task_rtl has read for the id of its SRTL application (crm.py:119)
Idle == [fcn |-> "", client |-> 0, new_owner |-> 0, index |-> 0]
Dead == [fcn |-> "dead", client |-> 0, new_owner |-> 0, index |-> 0]
SetOwnerTask(c, o) ==
  [fcn |-> "set_owner", client |-> c, new_owner |-> o, index |-> 0]
RtlTask(c) == [fcn |-> "rtl", client |-> c, new_owner |-> 0, index |-> 0]
BatteryTask(c) == [fcn |-> "battery", client |-> c, new_owner |-> 0, index |-> 0]

\* str.casefold on the capability names of the model
casefold(c) == IF c = "RGB" THEN "rgb" ELSE IF c = "SIM" THEN "sim" ELSE c
Folded(S) == {casefold(c) : c \in S}

Put(f, k, v) == [x \in DOMAIN f \cup {k} |-> IF x = k THEN v ELSE f[x]]
Del(f, k) == [x \in DOMAIN f \ {k} |-> f[x]]

\* crm.py:165-168: the caller's timestamp is refreshed before the handler
Touch(reg, id) ==
  IF id \in DOMAIN reg THEN [reg EXCEPT ![id].age = 0] ELSE reg

\* crm.py:204-207, json.dump of the counter and of the registry; the
\* timestamps of the records are left out of the comparison
Persisted(index, reg) ==
  [nextIndex |-> index,
   clients |-> [c \in DOMAIN reg |-> [reg[c] EXCEPT !.age = 0]]]

\* crm.py:170-172: the handler has returned and the snapshot is written
export_clients == snapshot' = Persisted(nextIndex', clients')

\* crm.py:28-80 with virgin = True
InitCRM ==
  /\ clients = << >>
  /\ nextIndex = 1
  /\ tasks = << >>
  /\ worker = Idle
  /\ snapshot = Persisted(1, << >>)

\* crm.py:515-570, registration without id.  A stale vehicle record with
\* the same ip is deleted inside the loop over the registry (crm.py:550-559),
\* which makes the loop raise RuntimeError: main answers 'unexpected
\* exception' (crm.py:173-175) and nothing is registered.
Register(in) ==
  LET same == {c \in DOMAIN clients :
                 clients[c].ip = in.ip /\ clients[c].type = in.type}
      first == CHOOSE c \in same : \A o \in same : c <= o
  IN
  /\ IF in.type = "dss" /\ same # {}
       THEN IF clients[first].age < T_UNAVAILABLE
              THEN UNCHANGED << clients, nextIndex, tasks >> /\ export_clients
              ELSE /\ clients' = Del(clients, first)
                   /\ UNCHANGED << nextIndex, tasks, snapshot >>
       ELSE /\ nextIndex <= MaxIndex
            /\ in.type = "dss" => Len(tasks) < MaxTasks
            /\ clients' = Put(clients, Id(in.type, nextIndex),
                 [type |-> in.type, owner |-> Crm, ip |-> in.ip,
                  has_caps |-> TRUE, caps |-> in.caps, age |-> 0])
            /\ nextIndex' = nextIndex + 1
            /\ tasks' = IF in.type = "dss"
                          THEN Append(tasks, BatteryTask(Id(in.type, nextIndex)))
                          ELSE tasks
            /\ export_clients
  /\ UNCHANGED worker

\* crm.py:415-446: an application is launched for a registered client: its
\* record is stored under a fresh id, without endpoint and without
\* capabilities, owned by the caller
LaunchApp(id) ==
  /\ id \in DOMAIN clients
  /\ nextIndex <= MaxIndex
  /\ clients' = Put(Touch(clients, id), Id("da", nextIndex),
       [type |-> "da", owner |-> id, ip |-> 0,
        has_caps |-> FALSE, caps |-> {}, age |-> 0])
  /\ nextIndex' = nextIndex + 1
  /\ UNCHANGED << tasks, worker >>
  /\ export_clients

\* crm.py:531-548, 563-570, registration with an id; same_name is the
\* comparison of the name of the message with the name of the record
RegisterId(id, in, same_name) ==
  LET reg == Touch(clients, id) IN
  /\ IF /\ id \in DOMAIN reg
        /\ reg[id].ip = 0
        /\ same_name /\ in.type = reg[id].type
       THEN /\ in.type = "dss" => Len(tasks) < MaxTasks
            /\ clients' = [reg EXCEPT ![id].ip = in.ip,
                                      ![id].has_caps = TRUE,
                                      ![id].caps = in.caps]
            /\ tasks' = IF in.type = "dss" THEN Append(tasks, BatteryTask(id))
                                           ELSE tasks
       ELSE /\ clients' = reg
            /\ UNCHANGED tasks
  /\ UNCHANGED << nextIndex, worker >>
  /\ export_clients

\* crm.py:383-397: the answer of kill_process to a message with an id and
\* a pid; running tells whether psutil finds the process, which is then
\* terminated.  The handler does not look the id up.
request_kill_process(reg, id, running) ==
  IF running THEN "ack" ELSE "process no longer exists"

\* crm.py:286-293: the nack reasons of get_drone with force
ForceAvailable(reg, force) ==
  /\ force \in DOMAIN reg
  /\ reg[force].owner = Crm
  /\ ~(reg[force].age > T_UNAVAILABLE)

\* crm.py:273-294
GetDroneForce(id, force) ==
  /\ id \in DOMAIN clients
  /\ LET reg == Touch(clients, id)
     IN /\ clients' = reg
        /\ IF ForceAvailable(reg, force)
             THEN /\ Len(tasks) < MaxTasks
                  /\ tasks' = Append(tasks, SetOwnerTask(force, id))
             ELSE UNCHANGED tasks
  /\ UNCHANGED << nextIndex, worker >>
  /\ export_clients

\* crm.py:304: the records the capability search accepts
Eligible(reg, S) ==
  {c \in DOMAIN reg :
     /\ reg[c].owner = Crm /\ reg[c].type = "dss"
     /\ Folded(S) \subseteq Folded(reg[c].caps)
     /\ reg[c].age < T_UNAVAILABLE}

\* crm.py:298-307: the first record, in the order of the registry, among
\* the eligible ones with the fewest capabilities
Picked(reg, S) ==
  CHOOSE c \in Eligible(reg, S) :
    \A o \in Eligible(reg, S) :
      \/ Cardinality(Folded(reg[c].caps)) < Cardinality(Folded(reg[o].caps))
      \/ /\ Cardinality(Folded(reg[c].caps)) = Cardinality(Folded(reg[o].caps))
         /\ c <= o

\* crm.py:301-312 and 173-175: the reply to get_drone(capabilities=S).  The
\* loop reads client['capabilities'] of every record (line 302): a record
\* without that key raises KeyError, answered by 'unexpected exception'
GetDroneAnswer(reg, S) ==
  IF \E c \in DOMAIN reg : ~reg[c].has_caps THEN "unexpected exception"
  ELSE IF Eligible(reg, S) # {} THEN "ack"
  ELSE "no available drone with requested capabilities"

\* crm.py:295-310
GetDroneCapabilities(id, S) ==
  /\ id \in DOMAIN clients
  /\ LET reg == Touch(clients, id)
     IN /\ clients' = reg
        /\ IF GetDroneAnswer(reg, S) = "ack"
             THEN /\ Len(tasks) < MaxTasks
                  /\ tasks' = Append(tasks, SetOwnerTask(Picked(reg, S), id))
             ELSE UNCHANGED tasks
        /\ UNCHANGED << nextIndex, worker >>
        /\ IF GetDroneAnswer(reg, S) = "unexpected exception"
             THEN UNCHANGED snapshot ELSE export_clients

\* crm.py:572-592
ReleaseDrone(id, id_released) ==
  /\ id \in DOMAIN clients
  /\ LET reg == Touch(clients, id)
     IN /\ clients' = reg
        /\ IF id_released \in DOMAIN reg
             THEN /\ Len(tasks) + 2 <= MaxTasks
                  /\ tasks' = tasks \o << SetOwnerTask(id_released, Crm),
                                          RtlTask(id_released) >>
             ELSE UNCHANGED tasks
  /\ UNCHANGED << nextIndex, worker >>
  /\ export_clients

\* the set_owner tasks unregister queues, one per vehicle the client owns
\* (crm.py:621-623), in the order of the registry
RECURSIVE OwnedTasks(_, _, _)
OwnedTasks(reg, id, from) ==
  IF from > MaxIndex THEN << >>
  ELSE (IF from \in DOMAIN reg /\ reg[from].owner = id /\ reg[from].type = "dss"
          THEN << SetOwnerTask(from, Crm) >> ELSE << >>)
       \o OwnedTasks(reg, id, from + 1)

\* crm.py:610-629
Unregister(id) ==
  /\ id \in DOMAIN clients
  /\ LET reg == Touch(clients, id)
     IN /\ Len(tasks) + Len(OwnedTasks(reg, id, 1)) <= MaxTasks
        /\ tasks' = tasks \o OwnedTasks(reg, id, 1)
        /\ clients' = Del(reg, id)
  /\ UNCHANGED << nextIndex, worker >>
  /\ export_clients

\* crm.py:401-413
HeartBeat(id) ==
  /\ id \in DOMAIN clients
  /\ clients' = Touch(clients, id)
  /\ UNCHANGED << nextIndex, tasks, worker >>
  /\ export_clients

\* crm.py:223-243
AppLost(id) ==
  /\ id \in DOMAIN clients
  /\ LET reg == Touch(clients, id)
     IN /\ clients' = reg
        /\ IF reg[id].owner # Crm
             THEN /\ Len(tasks) + 2 <= MaxTasks
                  /\ tasks' = tasks \o << SetOwnerTask(id, Crm), RtlTask(id) >>
             ELSE UNCHANGED tasks
  /\ UNCHANGED << nextIndex, worker >>
  /\ export_clients

\* crm.py:186-188
Stale_Any(reg) == {c \in DOMAIN reg : reg[c].age > 0}
Stale(reg) == {c \in DOMAIN reg : reg[c].age > T_STALE}

\* crm.py:155-158, 184-202: the receive times out and the stale clients
\* are deleted
delStaleClients ==
  /\ Stale(clients) # {}
  /\ clients' = [c \in DOMAIN clients \ Stale(clients) |-> clients[c]]
  /\ UNCHANGED << nextIndex, tasks, worker >>
  /\ UNCHANGED snapshot

\* the broker's clock advances: every record gets older
TimePasses ==
  /\ \E c \in DOMAIN clients : clients[c].age < MaxAge
  /\ clients' = [c \in DOMAIN clients |->
       [clients[c] EXCEPT !.age = IF @ + TimeStep > MaxAge THEN MaxAge
                                  ELSE @ + TimeStep]]
  /\ UNCHANGED << nextIndex, tasks, worker >>
  /\ UNCHANGED snapshot

\* task_queue.py:82-91 and the first lines of the tasks (crm.py:92, 110,
\* 127): a task for a client that left the registry raises KeyError, which
\* ends the worker thread (task_queue.py:106-109: no handler is given at
\* crm.py:66)
WorkerTakes ==
  /\ worker = Idle
  /\ tasks # << >>
  /\ tasks' = Tail(tasks)
  /\ worker' = IF Head(tasks).client \in DOMAIN clients THEN Head(tasks) ELSE Dead
  /\ UNCHANGED << clients, nextIndex >>
  /\ UNCHANGED snapshot

\* crm.py:97-105: one of the three attempts is acked, or none is answered
task_set_owner(acked) ==
  /\ worker.fcn = "set_owner"
  /\ IF acked
       THEN IF worker.client \in DOMAIN clients
              THEN /\ clients' = [clients EXCEPT
                                    ![worker.client].owner = worker.new_owner]
                   /\ worker' = Idle
              ELSE worker' = Dead /\ UNCHANGED clients
       ELSE worker' = Idle /\ UNCHANGED clients
  /\ UNCHANGED << nextIndex, tasks >>
  /\ UNCHANGED snapshot

\* crm.py:107-119: NoAnswer is not caught; when the vehicle is armed the
\* id of the SRTL application is formatted from the counter
task_rtl(answer) ==
  /\ worker.fcn = "rtl"
  /\ CASE answer = "NoAnswer" -> worker' = Dead
       [] answer = "armed" ->
            /\ nextIndex <= MaxIndex
            /\ worker' = [worker EXCEPT !.fcn = "srtl", !.index = nextIndex]
       [] OTHER -> worker' = Idle
  /\ UNCHANGED << clients, nextIndex, tasks >>
  /\ UNCHANGED snapshot

\* crm.py:120-122: the counter is incremented and the record of the SRTL
\* application is stored.  The worker thread holds no lock: the dispatcher
\* may have allocated since line 119.  The increment of line 120 stores
\* the successor of the value it read, which is any value the counter has
\* had since line 119; of two writes of the same id the later one stays,
\* the worker's (line 121) or the dispatcher's (crm.py:563).
task_rtl_spawn ==
  /\ worker.fcn = "srtl"
  /\ \E read \in worker.index .. nextIndex : nextIndex' = read + 1
  /\ \E last \in BOOLEAN :
       clients' =
         IF last \/ Id("da", worker.index) \notin DOMAIN clients
           THEN Put(clients, Id("da", worker.index),
                  [type |-> "da", owner |-> Crm, ip |-> 0, has_caps |-> FALSE,
                   caps |-> {}, age |-> 0])
           ELSE clients
  /\ worker' = Idle
  /\ UNCHANGED tasks
  /\ UNCHANGED snapshot

\* crm.py:124-138
task_start_battery_stream ==
  /\ worker.fcn = "battery"
  /\ worker' = Idle
  /\ UNCHANGED << clients, nextIndex, tasks >>
  /\ UNCHANGED snapshot

\* the callers of the model: applications ask for and release vehicles,
\* vehicles report a lost application
Apps == {c \in DOMAIN clients : clients[c].type = "da"}
Vehicles == {c \in DOMAIN clients : clients[c].type = "dss"}

NextCRM ==
  \/ \E in \in RegisterInputs :
       nextIndex < MaxIndex /\ Register(in) /\ UNCHANGED << dssVars, auxVars >>
  \/ \E id \in Apps :
       nextIndex < MaxIndex /\ LaunchApp(id) /\ UNCHANGED << dssVars, auxVars >>
  \/ \E id \in Apps, in \in RegisterInputs, same_name \in BOOLEAN :
       RegisterId(id, in, same_name) /\ UNCHANGED << dssVars, auxVars >>
  \/ \E id \in Apps, force \in Vehicles :
       GetDroneForce(id, force) /\ UNCHANGED << dssVars, auxVars >>
  \/ \E id \in Apps, S \in RequestedCaps :
       GetDroneCapabilities(id, S) /\ UNCHANGED << dssVars, auxVars >>
  \/ \E id \in Apps, d \in Vehicles : ReleaseDrone(id, d) /\ UNCHANGED << dssVars, auxVars >>
  \/ \E id \in Ids : Unregister(id) /\ UNCHANGED << dssVars, auxVars >>
  \/ \E id \in Vehicles : AppLost(id) /\ UNCHANGED << dssVars, auxVars >>
  \/ WorkerTakes /\ UNCHANGED << dssVars, auxVars >>
  \/ \E acked \in BOOLEAN : task_set_owner(acked) /\ UNCHANGED << dssVars, auxVars >>
  \/ \E answer \in {"armed", "disarmed", "NoAnswer"} :
       /\ answer = "armed" => nextIndex < MaxIndex
       /\ task_rtl(answer) /\ UNCHANGED << dssVars, auxVars >>
  \/ task_rtl_spawn /\ UNCHANGED << dssVars, auxVars >>
  \/ task_start_battery_stream /\ UNCHANGED << dssVars, auxVars >>

\* the allocation of the ids by the dispatcher and by the worker: one
\* endpoint registers, every set_owner is acked
NextIds ==
  \/ \E in \in {i \in RegisterInputs : i.ip = 1} :
       Register(in) /\ UNCHANGED << dssVars, auxVars >>
  \/ \E id \in Apps, force \in Vehicles :
       GetDroneForce(id, force) /\ UNCHANGED << dssVars, auxVars >>
  \/ \E id \in Ids : Unregister(id) /\ UNCHANGED << dssVars, auxVars >>
  \/ \E id \in Vehicles : AppLost(id) /\ UNCHANGED << dssVars, auxVars >>
  \/ WorkerTakes /\ UNCHANGED << dssVars, auxVars >>
  \/ task_set_owner(TRUE) /\ UNCHANGED << dssVars, auxVars >>
  \/ \E answer \in {"armed", "disarmed"} : task_rtl(answer) /\ UNCHANGED << dssVars, auxVars >>
  \/ task_rtl_spawn /\ UNCHANGED << dssVars, auxVars >>
  \/ task_start_battery_stream /\ UNCHANGED << dssVars, auxVars >>

NextStale ==
  \/ \E in \in RegisterInputs :
       nextIndex < MaxIndex /\ Register(in) /\ UNCHANGED << dssVars, auxVars >>
  \/ \E id \in Ids : Unregister(id) /\ UNCHANGED << dssVars, auxVars >>
  \/ \E id \in Ids : HeartBeat(id) /\ UNCHANGED << dssVars, auxVars >>
  \/ delStaleClients /\ UNCHANGED << dssVars, auxVars >>
  \/ TimePasses /\ UNCHANGED << dssVars, auxVars >>
  \/ WorkerTakes /\ UNCHANGED << dssVars, auxVars >>
  \/ task_start_battery_stream /\ UNCHANGED << dssVars, auxVars >>

-----------------------------------------------------------------------------
(* The request socket (src/src/dss/auxiliaries/zmq.py, class Req) and the   *)
(* task queue (src/src/dss/auxiliaries/task_queue.py, class TaskQueue).     *)
(* req.pc is the position of each thread that uses the socket: "app" calls  *)
(* send_and_receive (app_tyra.py:442, from its queue's worker), "handler"   *)
(* calls _send_and_receive itself (app_tyra.py:651), "heartbeat" is the     *)
(* socket's own thread.  queue.pc is the position of each thread that adds, *)
(* queue.wpc the position of the worker.  Tasks are numbered in the order   *)
(* in which they are appended.                                              *)

MaxTick == 4   \* heartbeats a socket sends
MaxAdds == 3   \* tasks added to a queue

\* zmq.py:223-233 Req.__init__, task_queue.py:28-34 TaskQueue.__init__ and
\* hexacopter.py:172, 288 (no mission is pending, the trail is empty)
InitAuxiliaries(exception_handler) ==
  /\ req = [mutex |-> "free", socket |-> "ready", event |-> FALSE,
            pc |-> [t \in {"app", "handler", "heartbeat"} |->
                      IF t = "heartbeat" THEN "unstarted" ELSE "idle"],
            tick |-> 0, attempts |-> 0, log |-> "none"]
  /\ queue = [handler |-> exception_handler, thread |-> "none",
              alive |-> FALSE, event |-> FALSE, tasks |-> << >>,
              pc |-> [a \in {"main", "other"} |-> "idle"], wpc |-> "while",
              jpc |-> "idle", spc |-> "idle",
              current |-> 0, added |-> 0, executed |-> << >>,
              removed |-> {}, late |-> 0]
  /\ hexa = [alive |-> TRUE, pending |-> << >>, mission |-> << >>,
             answer |-> "", trail |-> << >>, reached |-> << >>,
             next_wp |-> -1, it |-> 0, begun |-> << >>, visited |-> << >>]

\* zmq.py:253-265 Req.start_heartbeat: the thread is created once
start_heartbeat ==
  /\ req.pc["heartbeat"] = "unstarted"
  /\ req' = [req EXCEPT !.pc["heartbeat"] = "clear"]

\* zmq.py:324-335 Req._main_heartbeat up to the call of send_and_receive:
\* clear the event, wait for it for the timeout, and when it is still clear
\* take the next tick
_main_heartbeat ==
  \/ /\ req.pc["heartbeat"] = "clear"
     /\ req' = [req EXCEPT !.event = FALSE, !.pc["heartbeat"] = "wait"]
  \/ /\ req.pc["heartbeat"] = "wait"
     /\ req.event
     /\ req' = [req EXCEPT !.pc["heartbeat"] = "clear"]
  \/ /\ req.pc["heartbeat"] = "wait"
     /\ ~req.event
     /\ req.tick < MaxTick
     /\ req' = [req EXCEPT !.tick = @ + 1, !.pc["heartbeat"] = "lock"]

\* zmq.py:293-295 Req.send_and_receive: the caller takes the mutex
send_and_receive(t) ==
  /\ req.pc[t] = (IF t = "heartbeat" THEN "lock" ELSE "idle")
  /\ req.mutex = "free"
  /\ req' = [req EXCEPT !.mutex = t, !.pc[t] = "send"]

\* zmq.py:272-291 Req._send_and_receive, with the return through
\* send_and_receive (the mutex is released) and, in the heartbeat thread,
\* zmq.py:336-344 (the answer is counted; NoAnswer is not caught).  A send
\* on a socket that another thread is using either raises ZMQError or
\* goes out as well.
_send_and_receive(t, answer) ==
  LET raised(r) == [r EXCEPT !.mutex = IF @ = t THEN "free" ELSE @,
                             !.pc[t] = IF t = "heartbeat" THEN "dead" ELSE "idle"]
      n == IF answer = "ack" THEN 0 ELSE req.attempts + 1
  IN
  \/ /\ t = "handler"
     /\ req.pc[t] = "idle"
     /\ answer = "ack"
     /\ req' = [req EXCEPT !.pc[t] = "send"]
  \/ /\ req.pc[t] = "send"
     /\ IF req.socket = "ready"
          THEN /\ answer = "ack"
               /\ req' = [req EXCEPT !.socket = "awaiting", !.pc[t] = "recv"]
          ELSE \/ /\ answer = "ZMQError"
                  /\ req' = raised(req)
               \/ /\ answer = "ack"
                  /\ req' = [req EXCEPT !.pc[t] = "recv"]
  \/ /\ req.pc[t] = "recv"
     /\ answer \in {"ack", "nack", "Again"}
     /\ req' = IF answer = "Again"
                 THEN raised([req EXCEPT !.socket = "ready"])
                 ELSE IF t = "heartbeat"
                 THEN [req EXCEPT !.socket = "ready", !.event = TRUE,
                                  !.mutex = "free", !.pc[t] = "clear",
                                  !.attempts = n,
                                  !.log = IF n \in {1, 2} THEN "warning"
                                          ELSE IF n = 3 THEN "error"
                                          ELSE "none"]
                 ELSE [req EXCEPT !.socket = "ready", !.event = TRUE,
                                  !.mutex = IF @ = t THEN "free" ELSE @,
                                  !.pc[t] = "idle"]

\* task_queue.py:36-43 TaskQueue.start
start ==
  /\ queue.thread = "none"
  /\ queue' = [queue EXCEPT !.alive = TRUE, !.thread = "running"]

\* task_queue.py:66-70 TaskQueue.add: append under the mutex, then set the
\* event
add_SetFirst(a) ==
  \/ /\ queue.pc[a] = "idle"
     /\ queue.added < MaxAdds
     /\ queue' = [queue EXCEPT !.event = TRUE, !.pc[a] = "set"]
  \/ /\ queue.pc[a] = "set"
     /\ queue' = [queue EXCEPT !.tasks = Append(@, queue.added + 1),
                               !.added = @ + 1, !.pc[a] = "idle"]
add(a) ==
  \/ /\ queue.pc[a] = "idle"
     /\ queue.added < MaxAdds
     /\ queue' = [queue EXCEPT !.tasks = Append(@, queue.added + 1),
                               !.added = @ + 1, !.pc[a] = "set"]
  \/ /\ queue.pc[a] = "set"
     /\ queue' = [queue EXCEPT !.event = TRUE, !.pc[a] = "idle"]

\* task_queue.py:55-58 TaskQueue.clear
clear ==
  queue' = [queue EXCEPT !.tasks = << >>,
              !.removed = @ \cup {queue.tasks[i] : i \in DOMAIN queue.tasks}]

\* task_queue.py:45-53 TaskQueue.stop, step by step: alive, clear, set the
\* event, join the thread
stop_NoSet ==
  \/ /\ queue.spc = "idle"
     /\ queue.thread # "none"
     /\ queue' = [queue EXCEPT !.alive = FALSE, !.spc = "clear"]
  \/ /\ queue.spc = "clear"
     /\ queue' = [queue EXCEPT !.tasks = << >>, !.spc = "join",
                   !.removed = @ \cup {queue.tasks[i] : i \in DOMAIN queue.tasks}]
  \/ /\ queue.spc = "join"
     /\ queue.thread = "ended"
     /\ queue' = [queue EXCEPT !.spc = "done"]
stop ==
  \/ /\ queue.spc = "idle"
     /\ queue.thread # "none"
     /\ queue' = [queue EXCEPT !.alive = FALSE, !.spc = "clear"]
  \/ /\ queue.spc = "clear"
     /\ queue' = [queue EXCEPT !.tasks = << >>, !.spc = "set",
                   !.removed = @ \cup {queue.tasks[i] : i \in DOMAIN queue.tasks}]
  \/ /\ queue.spc = "set"
     /\ queue' = [queue EXCEPT !.event = TRUE, !.spc = "join"]
  \/ /\ queue.spc = "join"
     /\ queue.thread = "ended"
     /\ queue' = [queue EXCEPT !.spc = "done"]

\* task_queue.py:60-64 TaskQueue.join: set the event and poll it until it
\* is clear
join ==
  \/ /\ queue.jpc = "idle"
     /\ queue' = [queue EXCEPT !.event = TRUE, !.jpc = "poll"]
  \/ /\ queue.jpc = "poll"
     /\ ~queue.event
     /\ queue' = [queue EXCEPT !.jpc = "idle"]

\* task_queue.py:82-110 TaskQueue._main: while alive, wait for the event;
\* under the mutex pop the first task or, when there is none, clear the
\* event; run the task; an exception goes to the handler or ends the
\* thread.  late counts the tasks taken after stop was called.
_main(raises) ==
  /\ queue.thread = "running"
  /\ \/ /\ queue.wpc = "while"
        /\ ~raises
        /\ queue' = IF queue.alive
                      THEN [queue EXCEPT !.wpc = "wait"]
                      ELSE [queue EXCEPT !.event = FALSE, !.thread = "ended"]
     \/ /\ queue.wpc = "wait"
        /\ queue.event
        /\ ~raises
        /\ queue' = [queue EXCEPT !.wpc = "lock"]
     \/ /\ queue.wpc = "lock"
        /\ ~raises
        /\ queue' = IF queue.tasks # << >>
                      THEN [queue EXCEPT !.current = Head(queue.tasks),
                                         !.tasks = Tail(@), !.wpc = "run",
                                         !.late = IF queue.spc = "idle"
                                                    THEN @ ELSE @ + 1]
                      ELSE [queue EXCEPT !.event = FALSE, !.wpc = "while"]
     \/ /\ queue.wpc = "run"
        /\ queue' = [queue EXCEPT !.executed = Append(@, queue.current),
                                  !.current = 0, !.wpc = "while",
                                  !.thread = IF raises /\ ~queue.handler
                                               THEN "ended" ELSE @]

-----------------------------------------------------------------------------
(* The upload of a mission (src/src/dss/server/hexacopter.py).  A mission *)
(* is a function from the numbers n of its keys 'idn' to waypoints, sent in *)
(* the order of a sequence of its keys.  A waypoint is "a" when it passes   *)
(* every check, and otherwise the check that it fails.                      *)

\* hexacopter.py:448-502 Hexacopter.upload_mission: the answer of the first
\* check that fails in the order of the loop, and the mission when none
\* does; check_ok is unbound when the loop has not run
upload_mission_NoNumbering(mission, order) ==
  LET check(k) ==
        LET wp == mission[order[k]] IN
        IF wp = "geofence" THEN "WP outside geofence"
        ELSE IF wp = "speed" THEN "Speed below 0.1"
        ELSE ""
      failed == {k \in DOMAIN order : check(k) # ""}
  IN IF order = << >> THEN "UnboundLocalError"
     ELSE IF failed = {} THEN ""
     ELSE check(CHOOSE k \in failed : \A j \in failed : k <= j)
upload_mission(mission, order) ==
  LET check(k) ==
        LET wp == mission[order[k]] IN
        IF wp = "geofence" THEN "WP outside geofence"
        ELSE IF k - 1 \notin DOMAIN mission THEN "WP numbering faulty"
        ELSE IF wp = "speed" THEN "Speed below 0.1"
        ELSE ""
      failed == {k \in DOMAIN order : check(k) # ""}
  IN IF order = << >> THEN "UnboundLocalError"
     ELSE IF failed = {} THEN ""
     ELSE check(CHOOSE k \in failed : \A j \in failed : k <= j)

\* dss.py:473-494 Server._request_upload_mission, called from Server._main
\* (dss.py:1065-1080), which does not catch what the handler raises
_request_upload_mission(mission, order, nack) ==
  LET descr == IF nack # "" THEN nack ELSE upload_mission(mission, order) IN
  /\ hexa.alive
  /\ hexa' = [hexa EXCEPT !.alive = descr # "UnboundLocalError",
                !.pending = IF descr = "" THEN mission ELSE @,
                !.mission = mission,
                !.answer = descr]

(* The SRTL trail (src/src/dss/server/hexacopter.py).  The waypoints of    *)
(* the active mission are the numbers 0 .. MaxWp - 1 of their keys, the    *)
(* start point that reset_dss_srtl records is -1.  hexa.reached is the     *)
(* history of the waypoints reached since the trail was reset, hexa.begun  *)
(* the trail as it was when the running dss_srtl task began, hexa.visited  *)
(* the waypoints that this task has visited.                               *)

\* hexacopter.py:572-582 Hexacopter.reset_dss_srtl, from the dispatcher
\* (dss.py:314-326), which serves it while a task is running
reset_dss_srtl ==
  hexa' = [hexa EXCEPT !.trail = << -1 >>, !.reached = << >>]

\* hexacopter.py:681-724 Hexacopter.task_gogo: the task starts at next_wp;
\* each waypoint that is reached is inserted at the front of the trail
task_gogo_Append(next_wp) ==
  \/ /\ hexa.next_wp = -1
     /\ hexa.it = 0
     /\ hexa' = [hexa EXCEPT !.next_wp = next_wp]
  \/ /\ hexa.next_wp = next_wp
     /\ Len(hexa.trail) < MaxWp + 2
     /\ hexa' = [hexa EXCEPT !.trail = Append(@, next_wp),
                             !.reached = Append(@, next_wp),
                             !.next_wp = IF next_wp + 1 < MaxWp
                                           THEN next_wp + 1 ELSE -1]
task_gogo(next_wp) ==
  \/ /\ hexa.next_wp = -1
     /\ hexa.it = 0
     /\ hexa' = [hexa EXCEPT !.next_wp = next_wp]
  \/ /\ hexa.next_wp = next_wp
     /\ Len(hexa.trail) < MaxWp + 2
     /\ hexa' = [hexa EXCEPT !.trail = << next_wp >> \o @,
                             !.reached = Append(@, next_wp),
                             !.next_wp = IF next_wp + 1 < MaxWp
                                           THEN next_wp + 1 ELSE -1]

\* hexacopter.py:1199-1214 Hexacopter.task_dss_srtl: the loop over the
\* trail, one waypoint a round, with the index of the list iterator
task_dss_srtl ==
  \/ /\ hexa.next_wp = -1
     /\ hexa.it = 0
     /\ hexa' = [hexa EXCEPT !.it = 1, !.begun = hexa.trail, !.visited = << >>]
  \/ /\ hexa.it > 0
     /\ hexa' = IF hexa.it <= Len(hexa.trail)
                  THEN [hexa EXCEPT !.visited = Append(@, hexa.trail[hexa.it]),
                                    !.it = @ + 1]
                  ELSE [hexa EXCEPT !.it = 0]

-----------------------------------------------------------------------------
(* The specifications *)

\* the vehicle server at rest, for the runs of the broker
DssAtRest ==
  /\ InitDSS
  /\ cfg = FleetConfig
  /\ hexa_mode = "GUIDED"

\* the authority arbitration of a fleet vehicle, with the application's
\* tasks, the broker's set_owner and the loss of the application link
InitFleet == InitDSS /\ cfg = FleetConfig /\ InitCRM /\ InitAuxiliaries(FALSE)
SpecDSS == InitFleet /\ [][NextDSS]_vars

\* the handover with every check enabled
InitChecked == InitDSS /\ cfg = CheckedConfig /\ InitCRM /\ InitAuxiliaries(FALSE)
SpecHandover == InitChecked /\ [][NextHandover]_vars

\* the flight tasks of a fleet vehicle
SpecFlight == InitFleet /\ [][NextFlight]_vars

\* the broker, with the vehicle server at rest: the leases, the releases
\* and the task worker, in runs short enough for no client to age and for
\* one id to stay unallocated
InitBroker == DssAtRest /\ InitCRM /\ InitAuxiliaries(FALSE)
SpecCRM == InitBroker /\ [][NextCRM]_vars

\* the broker's ids
SpecIds == InitBroker /\ [][NextIds]_vars

\* the broker's clock: silent clients age and are deleted
SpecStale == InitBroker /\ [][NextStale]_vars


\* the request socket with its three callers
NextReq ==
  \/ start_heartbeat /\ UNCHANGED << dssVars, crmVars, queue, hexa >>
  \/ _main_heartbeat /\ UNCHANGED << dssVars, crmVars, queue, hexa >>
  \/ \E t \in {"app", "heartbeat"} :
       send_and_receive(t) /\ UNCHANGED << dssVars, crmVars, queue, hexa >>
  \/ \E t \in DOMAIN req.pc, answer \in {"ack", "nack", "Again", "ZMQError"} :
       _send_and_receive(t, answer) /\ UNCHANGED << dssVars, crmVars, queue, hexa >>
SpecReq == InitBroker /\ [][NextReq]_vars

\* the uploads of missions of up to MaxWp + 1 waypoints, in every order of
\* their keys
NextUpload ==
  \E keys \in {K \in SUBSET (0 .. MaxWp + 1) : Cardinality(K) <= MaxWp + 1} :
    \E order \in {o \in [1 .. Cardinality(keys) -> keys] :
                    \A k \in keys : \E i \in DOMAIN o : o[i] = k},
       mission \in [keys -> {"a", "geofence", "speed"}],
       nack \in {"", "Requester is not the DSS owner", "Init point not set"} :
      /\ _request_upload_mission(mission, order, nack)
      /\ UNCHANGED << dssVars, crmVars, req, queue >>
SpecUpload == InitBroker /\ [][NextUpload]_vars

\* the trail: missions are flown from any of their waypoints, the owner
\* resets the trail and asks for the safe return
NextTrail ==
  \/ reset_dss_srtl /\ UNCHANGED << dssVars, crmVars, req, queue >>
  \/ \E next_wp \in 0 .. MaxWp - 1 :
       task_gogo(next_wp) /\ UNCHANGED << dssVars, crmVars, req, queue >>
  \/ task_dss_srtl /\ UNCHANGED << dssVars, crmVars, req, queue >>
SpecTrail == InitBroker /\ [][NextTrail]_vars

\* the task queue, with or without an exception handler; every thread
\* that is able to take a step takes it in the end
InitQueue == \E h \in BOOLEAN : DssAtRest /\ InitCRM /\ InitAuxiliaries(h)
NextQueue ==
  \/ start /\ UNCHANGED << dssVars, crmVars, req, hexa >>
  \/ \E a \in DOMAIN queue.pc : add(a) /\ UNCHANGED << dssVars, crmVars, req, hexa >>
  \/ clear /\ UNCHANGED << dssVars, crmVars, req, hexa >>
  \/ stop /\ UNCHANGED << dssVars, crmVars, req, hexa >>
  \/ join /\ UNCHANGED << dssVars, crmVars, req, hexa >>
  \/ \E raises \in BOOLEAN : _main(raises) /\ UNCHANGED << dssVars, crmVars, req, hexa >>
SpecQueueFair ==
  /\ InitQueue
  /\ [][NextQueue]_vars
  /\ WF_vars(start /\ UNCHANGED << dssVars, crmVars, req, hexa >>)
  /\ WF_vars(\E a \in DOMAIN queue.pc :
                queue.pc[a] = "set" /\ add(a) /\ UNCHANGED << dssVars, crmVars, req, hexa >>)
  /\ WF_vars(\E raises \in BOOLEAN :
                _main(raises) /\ UNCHANGED << dssVars, crmVars, req, hexa >>)
  /\ WF_vars(queue.spc # "idle" /\ stop /\ UNCHANGED << dssVars, crmVars, req, hexa >>)
  /\ WF_vars(queue.jpc # "idle" /\ join /\ UNCHANGED << dssVars, crmVars, req, hexa >>)
-----------------------------------------------------------------------------
(* Properties of the broker *)

\* the ownership changes of vehicle d that are queued or being executed
PendingSetOwner(d) ==
  SelectSeq((IF worker.fcn = "set_owner" THEN << worker >> ELSE << >>) \o tasks,
            LAMBDA t : t.fcn = "set_owner" /\ t.client = d)

\* the holder of vehicle d once the queued ownership changes have landed:
\* Crm when d is free or released
LeaseOf(d) ==
  IF PendingSetOwner(d) # << >>
    THEN PendingSetOwner(d)[Len(PendingSetOwner(d))].new_owner
    ELSE clients[d].owner

\* get_drone is acked for requester b and vehicle d in this step
\* (crm.py:293 and 309: the only places that queue set_owner for an application)
Grants(d, b) ==
  /\ Len(tasks') = Len(tasks) + 1
  /\ tasks'[Len(tasks')] = SetOwnerTask(d, b)

\* C1: lease exclusivity.  Whenever the broker acks a get_drone that grants
\* vehicle d to requester b, d is not leased to another requester: no grant
\* of d to another requester has been acked (whether its set_owner task has
\* run or not) without a release of d after it.
C1_LeaseExclusivity ==
  [][\A d \in Vehicles, b \in Apps :
       Grants(d, b) => LeaseOf(d) \in {Crm, b}]_vars

-----------------------------------------------------------------------------
(* Properties of the vehicle server *)

\* the step is one of the task thread in which a motion command is sent to
\* the vehicle: set_guided_mode (hexacopter.py:1064-1070), the mode change of
\* task_ardupilot_rtl and task_land, send_goto_lla, simple_takeoff, and the
\* return to GUIDED of an aborted landing
TaskCommands ==
  /\ task_pc' # task_pc
  /\ \/ task_pc \in {"set_guided", "ato_takeoff"}
     \/ task_pc \in {"rtl", "land", "goto"} /\ is_flight_mode("GUIDED")
     \/ task_pc = "land_wait" /\ armed /\ is_flight_mode("LAND")

\* the step is one of the dispatcher in which the handler of msg sends a
\* motion command
HandlerCommands(msg) ==
  /\ ServeRequest(msg)
  /\ ~LinkLost(IF from_owner(msg) THEN 0 ELSE t_diff)
  /\ Called(msg) /\ Acked(msg) /\ Commands(msg)

\* C2: commands only while authorized.  Every step in which the vehicle
\* server sends a motion command on behalf of the application, from a task an
\* application requested or from a request handler, is taken while authority
\* is APPLICATION.
C2_CommandsOnlyWhileAuthorized ==
  [][((ForApp /\ TaskCommands) \/ (\E msg \in Requests : HandlerCommands(msg)))
       => in_controls = "APPLICATION"]_vars

\* the step is the one of the dispatcher in which _is_link_lost finds the
\* owner silent for t_link_lost seconds (dss.py:788-794)
FindsLinkLost ==
  /\ main_pc = "recv" /\ main_pc' # "recv"
  /\ LinkLost(t_diff) /\ t_diff' = t_diff

\* C3: the failsafe does not depend on the broker.  At the step that finds
\* the owner silent for 10 s while authority is APPLICATION, authority moves
\* to the safety layer and the dispatcher goes on to its next tick (which
\* starts the return to launch), whatever the outcome of app_lost.
C3_FailsafeWithoutBroker ==
  [][(FindsLinkLost /\ in_controls = "APPLICATION")
       => (in_controls' = "DSS" /\ main_pc' = "top")]_vars

\* C4: link-loss timing.  With an application connected and authority
\* APPLICATION, a dispatcher step that receives or times out moves authority
\* to the safety layer exactly when the time since the owner's last message
\* is at least 10 s, and it disconnects the application, so that the
\* transition cannot fire again before an owner has connected again.
C4_LinkLossTiming ==
  [][(main_pc = "recv" /\ main_pc' # "recv" /\ connected
      /\ in_controls = "APPLICATION")
       => /\ (in_controls' = "DSS") <=> (t_diff >= T_LINK_LOST /\ t_diff' = t_diff)
          /\ in_controls' = "DSS" => ~connected']_vars

\* C5: the safety layer starts a return to launch.  The dispatcher never
\* finds the return to launch of the safety layer completed unless an rtl
\* task has run since authority became SAFETY_LAYER.
C5_RtlStarted == log_rtl_completed => rtl_started

\* C6 as stated: at the tick that finds the safety layer's rtl task ended,
\* the return to launch having run and the vehicle being disarmed, authority
\* becomes PILOT.
C6_PilotAfterRtl ==
  [][(DssRtlCompleted /\ rtl_started /\ ~armed) => in_controls' = "PILOT"]_vars

\* C6 amended: at the tick that finds the safety layer's rtl task ended,
\* authority stays SAFETY_LAYER; authority leaves SAFETY_LAYER only for
\* PILOT, at a tick that finds the flight mode changed, and never for
\* APPLICATION.
C6_SafetyLayerUntilPilot ==
  [][/\ DssRtlCompleted => in_controls' = "DSS"
     /\ (in_controls = "DSS" /\ in_controls' # "DSS")
          => (in_controls' = "PILOT" /\ main_pc = "top"
              /\ ~expected_flight_mode)]_vars

\* the return to launch of the safety layer has run and is found completed,
\* the vehicle has landed and disarmed, and authority is still SAFETY_LAYER
C6_Witness ==
  /\ in_controls = "DSS" /\ log_rtl_completed /\ rtl_started
  /\ ~armed /\ task.fcn = "rtl" /\ ~task_event

\* C7 as stated: every tick of the dispatcher that starts with authority
\* APPLICATION or SAFETY_LAYER and the flight mode found changed ends with
\* authority PILOT and the observed mode as the commanded one.
C7_PilotAtNextTick ==
  [][(Arbitrate /\ in_controls \in {"APPLICATION", "DSS"}
      /\ ~expected_flight_mode)
       => (in_controls' = "PILOT" /\ hexa_mode' = flight_mode)]_vars

\* C7 amended: such a tick ends with authority PILOT, the observed mode as
\* the commanded one and the flight mode as expected, whatever the task
\* thread does and whether the return to launch runs or has completed;
\* except that with authority APPLICATION and the ground-station link lost
\* it ends with authority SAFETY_LAYER, and the dispatcher ticks again at
\* once.
C7_PilotTakesOver ==
  [][(Arbitrate /\ in_controls \in {"APPLICATION", "DSS"}
      /\ ~expected_flight_mode)
       => IF in_controls = "APPLICATION" /\ lost_link_to_gcs
            THEN in_controls' = "DSS" /\ main_pc' = "top"
            ELSE /\ in_controls' = "PILOT" /\ hexa_mode' = flight_mode
                 /\ expected_flight_mode' /\ main_pc' = "top"]_vars

\* the pilot has taken over from the safety layer: the rtl task of the
\* safety layer is set and the commanded mode is the pilot's
C7_Witness ==
  /\ in_controls = "PILOT" /\ task = DssRtlTask
  /\ hexa_mode = "LOITER" /\ flight_mode = "LOITER" /\ expected_flight_mode

\* C8: authority is PILOT at startup, always one of PILOT, DSS, APPLICATION,
\* and goes from PILOT to APPLICATION only at a tick of the dispatcher at
\* which the vehicle is armable, the ground-station link is present (when
\* required), the flight mode is GUIDED, which becomes the commanded mode,
\* the throttle is known and at mid-stick (when checked), an application is
\* connected and clearance is given (when checked).
C8_Handover ==
  /\ in_controls = "PILOT"
  /\ [](in_controls \in Authorities)
  /\ [][(in_controls = "PILOT" /\ in_controls' # "PILOT")
          => /\ in_controls' = "APPLICATION"
             /\ main_pc = "top"
             /\ is_armable
             /\ cfg.with_gcs => gcs_vital
             /\ flight_mode = "GUIDED" /\ hexa_mode' = "GUIDED"
             /\ channel3 # 0
             /\ cfg.midstick_check
                  => (PWM_STICK_LOW < channel3 /\ channel3 < PWM_STICK_HIGH)
             /\ connected
             /\ cfg.clearance_check => clearance_state = "CLEARED"]_vars

\* the handover has taken place with every check enabled
C8_Witness ==
  /\ in_controls = "APPLICATION" /\ cfg = CheckedConfig
  /\ hexa_mode = "GUIDED" /\ connected /\ gcs_vital

\* C9: with the clearance check enabled, at every handover from PILOT to
\* APPLICATION channel 13 has been observed low, then high, then low since
\* the previous handover (since startup for the first one).
C9_ClearanceCycle ==
  [][(in_controls = "PILOT" /\ in_controls' = "APPLICATION"
      /\ cfg.clearance_check) => lhl = 3]_vars

\* C10: authority APPLICATION implies a live owner: an application that sent
\* a request as owner and has since not been silent for 10 s, disconnected or
\* been replaced by set_owner, all of which clear the connected flag.
C10_LiveOwner == in_controls = "APPLICATION" => connected

\* the task thread is inside a task body (dss.py:914-918)
TaskRunning == task_pc \notin {"read", "clear", "wait", "done"}

-----------------------------------------------------------------------------
(* Properties of the tasks *)

\* C12: whenever authority has left APPLICATION while an application's task
\* is running, the abort flag is raised by the time the dispatcher has
\* finished the arbitration of that iteration and waits for a request.
C12_AbortRaised ==
  (main_pc = "recv" /\ in_controls # "APPLICATION" /\ ForApp /\ TaskRunning)
    => abort_task

\* the task thread executes a mission: task_gogo is inside its loop
\* (hexacopter.py:696-724)
InMission ==
  task.fcn = "gogo" /\ task_pc \in {"goto", "goto_loop", "gogo_reached"}

\* C13: once the abort flag is raised, the mission that task_gogo executes
\* ends before its next step: the next step of the task thread leaves the
\* task body, and the mission does not go on to a further waypoint.
C13_AbortEndsMission ==
  [][(abort_task /\ InMission /\ task_pc' # task_pc)
       => (task_pc' = "clear" /\ ~(mission_next_wp' > mission_next_wp))]_vars

\* the motion requests
MotionRequests == {msg \in Requests : msg.fcn \in MotionVerbs}

-----------------------------------------------------------------------------
(* Further properties of the broker *)

\* C15: the owner of every record of the registry is the broker or a client
\* that is in the registry.
C15_OwnerRegistered ==
  \A c \in DOMAIN clients :
    clients[c].owner = Crm \/ clients[c].owner \in DOMAIN clients

\* C16: the ids the broker allocates are fresh.  The counter never
\* decreases, every id in the registry was allocated below the counter, and
\* the id the task worker has formatted for its SRTL application is the id of
\* no client of the registry.
C16_FreshIds ==
  /\ [][nextIndex' >= nextIndex]_vars
  /\ [](\A c \in DOMAIN clients : Index(c) < nextIndex)
  /\ [](worker.fcn = "srtl" => Id("da", worker.index) \notin DOMAIN clients)

\* C17: get_drone with capabilities S is acked exactly when a record of
\* the registry is eligible, and answered 'no available drone with requested
\* capabilities' otherwise; the record it grants is eligible and no eligible
\* record has fewer capabilities.
C17_GetDrone ==
  \A S \in RequestedCaps :
    /\ GetDroneAnswer(clients, S) =
         IF Eligible(clients, S) # {} THEN "ack"
         ELSE "no available drone with requested capabilities"
    /\ Eligible(clients, S) # {} =>
         /\ Picked(clients, S) \in Eligible(clients, S)
         /\ \A o \in Eligible(clients, S) :
              Cardinality(Folded(clients[Picked(clients, S)].caps))
                <= Cardinality(Folded(clients[o].caps))

\* the set_owner tasks in the queue that give a vehicle to an application:
\* the leases get_drone has acked and that have not landed yet
WaitingLeases ==
  {i \in 1 .. Len(tasks) : tasks[i].fcn = "set_owner" /\ tasks[i].new_owner # Crm}

\* C18: a lease that get_drone has acked lands.  While its set_owner task
\* waits in the queue, the vehicle being registered, the task worker is
\* alive to execute it: the worker thread has not ended.
C18_LeaseLands ==
  \A i \in WaitingLeases :
    tasks[i].client \in DOMAIN clients => worker # Dead

\* the rtl tasks in the queue: release_drone and app_lost queue one behind
\* the set_owner task that returns the vehicle to the broker
WaitingReturns == {i \in 1 .. Len(tasks) : tasks[i].fcn = "rtl"}

\* C19: a release that was acked is carried out.  While the tasks of the
\* release wait in the queue (the return of the ownership to the broker and,
\* behind it, the return to launch), the released vehicle being registered
\* and still owned by an application, the task worker is alive to execute
\* them.
C19_ReleaseLands ==
  \A i \in WaitingReturns :
    (tasks[i].client \in DOMAIN clients /\ clients[tasks[i].client].owner # Crm)
      => worker # Dead

(* The broker's clock under its scheduling *)

\* crm.py:159-178: the dispatcher handles a request (of the runs of the
\* broker's clock)
HandlesRequest ==
  \/ \E in \in RegisterInputs : nextIndex < MaxIndex /\ Register(in)
  \/ \E id \in Ids : Unregister(id)
  \/ \E id \in Ids : HeartBeat(id)

\* the broker's clock with its scheduling: time passes, the dispatcher's
\* loop goes round (a request or a receive timeout) and the worker runs
SpecStaleFair ==
  /\ InitBroker /\ [][NextStale]_vars
  /\ WF_vars(TimePasses /\ UNCHANGED << dssVars, auxVars >>)
  /\ WF_vars((HandlesRequest \/ delStaleClients) /\ UNCHANGED << dssVars, auxVars >>)
  /\ WF_vars((WorkerTakes \/ task_start_battery_stream) /\ UNCHANGED << dssVars, auxVars >>)

C21_SameIp ==
  [][\A in \in RegisterInputs :
       LET same == {c \in DOMAIN clients :
                      clients[c].ip = in.ip /\ clients[c].type = in.type}
       IN (Register(in) /\ in.type = "dss" /\ same # {}) =>
            IF \E c \in same : clients[c].age < T_UNAVAILABLE
              THEN UNCHANGED crmVars
              ELSE /\ same \cap DOMAIN clients' = {}
                   /\ nextIndex' = nextIndex + 1
                   /\ Id("dss", nextIndex) \in DOMAIN clients'
                   /\ clients'[Id("dss", nextIndex)].owner = Crm]_vars

\* C22: a registration with an id changes the registry only when the
\* record exists, has no endpoint and has the name and type of the message;
\* it then fills in the endpoint and the capabilities and allocates no id.
\* A record that a client launched and that a registration with its id has
\* bound keeps its endpoint for as long as it exists, so that every later
\* registration with that id is refused.
C22_TwoPhase ==
  /\ [][\A id \in Ids, in \in RegisterInputs, same_name \in BOOLEAN :
          RegisterId(id, in, same_name) =>
            /\ nextIndex' = nextIndex /\ DOMAIN clients' = DOMAIN clients
            /\ clients' # Touch(clients, id) =>
                 /\ id \in DOMAIN clients /\ clients[id].ip = 0
                 /\ same_name /\ in.type = clients[id].type
                 /\ clients'[id].ip = in.ip /\ clients'[id].caps = in.caps
            /\ (id \in DOMAIN clients /\ clients[id].ip # 0) =>
                 clients' = Touch(clients, id) /\ UNCHANGED tasks]_vars
  /\ [][\A id \in DOMAIN clients \cap DOMAIN clients' :
          (clients[id].owner # Crm /\ clients[id].type = "da"
             /\ clients[id].ip # 0) => clients'[id].ip # 0]_vars

\* C23: a request of a caller that is not in the registry is refused: in
\* particular kill_process terminates no process for such a caller.
C23_UnknownCaller ==
  \A id \in Ids \ DOMAIN clients :
    request_kill_process(clients, id, TRUE) # "ack"

\* C24: a registration without id that is acked stores one record under an
\* id the registry did not hold and removes none; unregister of that id
\* removes that record and no other, so that the registry is the one before
\* the registration, while the counter of the ids keeps its new value.
C24_RegisterUnregister ==
  /\ [][\A in \in RegisterInputs :
          (Register(in) /\ nextIndex' # nextIndex) =>
            /\ Id(in.type, nextIndex) \notin DOMAIN clients
            /\ Id(in.type, nextIndex) \in DOMAIN clients'
            /\ Del(clients', Id(in.type, nextIndex)) = clients
            /\ nextIndex' = nextIndex + 1]_vars
  /\ [][\A id \in Ids :
          Unregister(id) =>
            /\ clients' = Del(clients, id)
            /\ nextIndex' = nextIndex]_vars

(* Properties of the snapshot *)

\* C25: whenever the broker is quiescent (the task queue is drained and the
\* worker is idle; a handler runs in one step) the snapshot holds the
\* counter and the registry of the memory.
C25_Snapshot ==
  (tasks = << >> /\ worker = Idle) => snapshot = Persisted(nextIndex, clients)

(* Properties of the replies *)

\* C26: every request the vehicle server receives is replied to before the
\* next receive: whenever the dispatcher is at its receive, no request that
\* can arrive takes the branch of the lost link, which goes back to the top
\* of the loop without a reply.
C26_OneReply ==
  main_pc = "recv" =>
    \A msg \in ArbitrationRequests : ~LinkLost(IF from_owner(msg) THEN 0 ELSE t_diff)

\* the authority arbitration under its scheduling: the dispatcher thread
\* keeps running its loop (dss.py:956-1086)
SpecDSSFair ==
  /\ InitFleet /\ [][NextDSS]_vars
  /\ WF_vars((\/ Arbitrate
              \/ ServeTimeout
              \/ \E msg \in ArbitrationRequests : ServeRequest(msg))
             /\ UNCHANGED << crmVars, auxVars >>)

\* C27: the protocol thread stays responsive in every authority state:
\* again and again the dispatcher is at its receive, where a request is
\* taken and answered.
C27_Responsive == []<>(main_pc = "recv")


-----------------------------------------------------------------------------
(* Properties of the request socket *)

\* C28: on a request socket at most one call is in progress at any time:
\* a thread is between the send of its request and the reply or NoAnswer
\* only while it holds the mutex.
C28_OneOutstanding ==
  /\ Cardinality({t \in DOMAIN req.pc : req.pc[t] \in {"send", "recv"}}) <= 1
  /\ \A t \in DOMAIN req.pc : req.pc[t] \in {"send", "recv"} => req.mutex = t


\* C29: once started, the heartbeat thread of a request socket keeps
\* running: no heartbeat, acknowledged or not, ends the thread.
C29_KeepsRunning == req.pc["heartbeat"] # "dead"


-----------------------------------------------------------------------------
(* Properties of the task queue *)

C32_WorkerGoesOn == worker # Dead


-----------------------------------------------------------------------------
(* Properties of the mission upload *)

\* C33: the upload of a mission is all or nothing.  When a waypoint of the
\* uploaded mission fails a check the request is nacked with the reason and
\* nothing of the upload becomes the pending mission; when every waypoint
\* passes, the request is acked and the pending mission is the uploaded one.
C33_AllOrNothing ==
  [][hexa'.answer \notin {"Requester is not the DSS owner", "Init point not set"}
       => LET m == hexa'.mission IN
          IF /\ \A n \in DOMAIN m : m[n] = "a"
             /\ DOMAIN m = 0 .. Cardinality(DOMAIN m) - 1
            THEN hexa'.answer = "" /\ hexa'.pending = m
            ELSE /\ hexa'.answer \in {"WP outside geofence", "WP numbering faulty",
                                       "Speed below 0.1"}
                 /\ hexa'.pending \in {<< >>, hexa.pending}]_vars


-----------------------------------------------------------------------------
(* Properties of the SRTL trail *)

C36_SingleWriter ==
  [][worker' # worker => clients' = clients /\ nextIndex' = nextIndex]_vars


\* C37: no request content ends the dispatcher of the vehicle server: after
\* every upload_mission request, the one with an empty mission included,
\* the dispatcher is alive and goes on serving requests.
C37_DispatcherServes == hexa.alive


-----------------------------------------------------------------------------
(* Properties of the release *)

\* C38: a lease is ended only by its holder.  A release_drone request of a
\* registered client for a registered vehicle it does not own queues
\* nothing: no change of the vehicle's owner and no return to launch.
C38_HolderReleases ==
  [][\A id \in Apps, d \in Vehicles :
       (/\ d \in DOMAIN clients /\ clients[d].owner # id
        /\ ReleaseDrone(id, d)) => tasks' = tasks]_vars


-----------------------------------------------------------------------------
(* Properties of the abort flag *)

\* C39: the abort flag is false whenever the vehicle server accepts a new
\* task: in a step of the dispatcher that sets the task event for the task
\* of a request, the flag is not raised.
C39_FlagCleared ==
  [][(~task_event /\ task_event' /\ task' # DssRtlTask) => ~abort_task]_vars


-----------------------------------------------------------------------------
(* Properties of the task thread *)

\* C40: every accepted task is started exactly once.  When the dispatcher
\* stores a task and sets the task event (for a request it acks or for the
\* rtl of the safety layer), the task thread is where it starts that task:
\* it waits at the event, or it is about to read the task.  It is not
\* between its reading of the task and its clearing of the event, where the
\* event just set would be cleared with the task unread.
C40_StartedOnce ==
  [][(~task_event /\ task_event') => task_pc \in {"wait", "read"}]_vars

=============================================================================
